---------------------------- MODULE Spec2Model ----------------------------
(***************************************************************************)
(* A model of qrouter's LEF/DEF readers (src/lef.c, src/def.c).            *)
(*                                                                         *)
(* The module holds several state machines over one set of variables:     *)
(*   SpecVia    the via registry and LefAssignLayerVias                    *)
(*   SpecPoly   LefReadPolygon / LefPolygonToRects                         *)
(*   SpecNets   DefReadNets over NETS and SPECIALNETS sections             *)
(*   SpecRoute  DefAddRoutes, token by token                               *)
(*   SpecLayer  LAYER / VIA sections, LefRedefined and the rule queries    *)
(*   SpecLookup the keyword lookup                                         *)
(*   SpecHash   the instance and net lists with their hash tables          *)
(*   SpecPlace  the placement of the rectangles of an instance             *)
(*   SpecComp   DefRead over a COMPONENTS section                          *)
(*   SpecStream DefAddRoutes over a stream of tokens that may end anywhere *)
(*   SpecMacro  LefReadMacro over repeated macro names                     *)
(*   SpecTracks DefRead over DIEAREA and TRACKS statements                 *)
(*   SpecRotate the end of LefRead: rotated versions of generated vias     *)
(*   SpecSnap   DefAddRoutes on points that lie on and off the tracks       *)
(*   SpecIndex  LAYER sections and LAYER statements of VIA sections         *)
(*   SpecNetCount DefReadNets: declared total, allocation and the counters  *)
(*   SpecPath   DefAddRoutes over one whole axis-aligned path               *)
(*                                                                         *)
(* Lengths are integers.  In the via model the unit is EPS, so that a      *)
(* difference of exactly EPS, which the C comparisons treat specially, is  *)
(* a value of the model.                                                   *)
(***************************************************************************)
EXTENDS Integers, Sequences, FiniteSets, TLC

VARIABLES
    \* ---- layer / via registry (lef.c globals)
    LefInfo,        \* the LefList, head first
    AllowedVias,    \* the allow-list; <<>> is NULL
    ViaXX, ViaXY, ViaYX, ViaYY,   \* per base layer: a via name or NULL
    lefPc,          \* "read" while sections are read, "assigned" after LefAssignLayerVias,
                    \* "crashed"
    \* ---- POLYGON statement (LefReadPolygon, LefPolygonToRects)
    plist,          \* the point list, head first
    rectList,       \* *rectListPtr
    polyPc,         \* "idle", "points", "rects", "error"
    \* ---- one call of DefAddRoutes
    rnet,           \* the net the route statement belongs to
    rspecial,       \* special: TRUE in a SPECIALNETS section
    rloc,           \* the locals of DefAddRoutes
    UserObs,        \* the global obstruction list, head first
    rtok,           \* the token group consumed last
    rcount,         \* number of token groups consumed
    routePc,        \* "idle", "route", "done"
    \* ---- NETS / SPECIALNETS sections (DefReadNets)
    Nlnets,         \* the net list; Numnets is its length
    netidx,         \* the next number for a regular net
    netsPc,         \* "idle", "NETS", "SPECIALNETS", "done", "crashed"
    nsect,          \* number of sections begun
    nstmts,         \* number of net statements read
    \* ---- a LAYER section and its re-reading (LefRead, LefReadLayerSection)
    lbody,          \* the statements of the LAYER section read so far
    ltok,           \* the statement or section read last
    layerPc,        \* "idle", "first", "second"
    \* ---- one call of a function of the readers
    callIn,         \* the arguments
    callOut,        \* the value returned, NoTok before the call
    \* ---- the instance list and the hash tables of def.c
    Nlgates,        \* the instance list, head first
    InstanceTable,  \* instance name -> instance
    NetTable,       \* net name -> index in Nlnets
    \* ---- DefRead and the section it is reading
    defPc,          \* "idle", "DefRead", the section being read, "returned"
    dloc,           \* the locals of DefRead
    cloc,           \* the locals of the section reader
    \* ---- the macros of the LEF file
    GateInfo,       \* the macro list, head first
    \* ---- the routing area and the track grid (globals set by DefRead)
    Xlowerbound, Xupperbound, Ylowerbound, Yupperbound,
    Tracks,         \* per layer: NoTok for NULL, or start, ntracks and pitch
    Pitch           \* Vert per layer and the track pitches found so far

viaVars == <<LefInfo, AllowedVias, ViaXX, ViaXY, ViaYX, ViaYY, lefPc>>

polyVars == <<plist, rectList, polyPc>>

routeVars == <<rnet, rspecial, rloc, UserObs, rtok, rcount, routePc>>

netVars == <<Nlnets, netidx, netsPc, nsect, nstmts>>

layerVars == <<lbody, ltok, layerPc>>

callVars == <<callIn, callOut>>

\* the variables of the state machines added after SpecLayer
hashVars == <<Nlgates, InstanceTable, NetTable>>

defVars == <<defPc, dloc, cloc>>

macroVars == <<GateInfo>>

boundVars == <<Xlowerbound, Xupperbound, Ylowerbound, Yupperbound, Tracks, Pitch>>

restVars == <<callVars, hashVars, defVars, macroVars, boundVars>>

vars == <<viaVars, polyVars, routeVars, netVars, layerVars, restVars>>

\* the variables of the other state machines, for UNCHANGED
notVia == <<polyVars, routeVars, netVars, layerVars, restVars>>

notPoly == <<viaVars, routeVars, netVars, layerVars, restVars>>

notRoute == <<viaVars, polyVars, netVars, layerVars, restVars>>

NULL == "NULL"

Min2(a, b) == IF a < b THEN a ELSE b
Max2(a, b) == IF a > b THEN a ELSE b
ABSDIFF(a, b) == IF a > b THEN a - b ELSE b - a

(***************************************************************************)
(* Program constants from the headers (qrouter.h, lefInt.h).               *)
(***************************************************************************)
EPS == 1
MAX_LAYERS == 3

CLASS_ROUTE == "ROUTE"
CLASS_CUT == "CUT"
CLASS_VIA == "VIA"
CLASS_IGNORE == "IGNORE"

Layers == 0 .. (MAX_LAYERS - 1)

(***************************************************************************)
(* Registry records.  A rectangle keeps its layer and its extents          *)
(* w = x2 - x1 and h = y2 - y1, the only quantities the modelled code      *)
(* reads from it.                                                          *)
(***************************************************************************)
Rect(l, w, h) == [layer |-> l, w |-> w, h |-> h]

NoRect == Rect(-1, 0, 0)

NoRoute == [width |-> 0, spacing |-> <<>>, pitchx |-> 0, pitchy |-> 0,
            offsetx |-> -1, offsety |-> -1, hdirection |-> "UNKNOWN"]

\* LefNewVia
LefNewVia(name) ==
    [lefName |-> name, lefClass |-> CLASS_VIA, type |-> -1, obsType |-> -1,
     area |-> NoRect, lr |-> <<>>, generated |-> FALSE, route |-> NoRoute]

\* LefNewRoute
LefNewRoute(name) ==
    [lefName |-> name, lefClass |-> CLASS_IGNORE, type |-> -1, obsType |-> -1,
     area |-> NoRect, lr |-> <<>>, generated |-> FALSE, route |-> NoRoute]

\* LefFindLayer: the first record of the list with that name, 0 when none
RECURSIVE FindFrom(_, _, _)
FindFrom(info, name, i) ==
    IF i > Len(info) THEN 0
    ELSE IF info[i].lefName = name THEN i
    ELSE FindFrom(info, name, i + 1)

LefFindLayer(info, name) == IF name = NULL THEN 0 ELSE FindFrom(info, name, 1)

\* LefFindLayerByNum: the first record of the list with that type, 0 when none
RECURSIVE FindNumFrom(_, _, _)
FindNumFrom(info, layer, i) ==
    IF i > Len(info) THEN 0
    ELSE IF info[i].type = layer THEN i
    ELSE FindNumFrom(info, layer, i + 1)

LefFindLayerByNum(info, layer) == FindNumFrom(info, layer, 1)

\* LefGetMaxLayer
LefGetMaxLayer(info) ==
    LET ts == {info[i].type : i \in 1 .. Len(info)} \cup {-1}
    IN  1 + CHOOSE m \in ts : \A t \in ts : t <= m

\* LefGetMaxRouteLayer
LefGetMaxRouteLayer(info) ==
    LET ts == {info[i].type : i \in {j \in 1 .. Len(info) :
                                        info[j].lefClass = CLASS_ROUTE}} \cup {-1}
    IN  1 + CHOOSE m \in ts : \A t \in ts : t <= m

(***************************************************************************)
(* LefAssignLayerVias (lef.c 3287-3652).                                   *)
(***************************************************************************)
Diff(r) == r.w - r.h

\* The first loop: hasGenerate[] per base layer; a generated via with an
\* enclosure on an undefined layer loses its flag.  The flag is only ever set
\* together with an lr entry, so lr->next is read from a non-NULL lr.
RECURSIVE GenerateScan(_, _, _)
GenerateScan(info, hasGen, i) ==
    IF i > Len(info) THEN [info |-> info, hasGenerate |-> hasGen]
    ELSE LET l == info[i] IN
         IF ~(l.lefClass = CLASS_VIA /\ l.generated)
         THEN GenerateScan(info, hasGen, i + 1)
         ELSE LET b0 == l.area.layer
                  bad1 == Len(l.lr) >= 1 /\ l.lr[1].layer < 0
                  b1 == IF Len(l.lr) >= 1 /\ (b0 < 0 \/ l.lr[1].layer < b0)
                        THEN l.lr[1].layer ELSE b0
                  bad2 == Len(l.lr) >= 2 /\ l.lr[2].layer < 0
                  b2 == IF Len(l.lr) >= 2 /\ (b1 < 0 \/ l.lr[2].layer < b1)
                        THEN l.lr[2].layer ELSE b1
              IN  IF bad1 \/ bad2
                  THEN GenerateScan([info EXCEPT ![i].generated = FALSE], hasGen, i + 1)
                  ELSE GenerateScan(info,
                                    IF b2 >= 0 /\ b2 < MAX_LAYERS
                                    THEN [hasGen EXCEPT ![b2] = TRUE] ELSE hasGen,
                                    i + 1)

\* minroute and maxroute: -1 when no route layer is defined
RouteTypes(info) ==
    {info[i].type : i \in {j \in 1 .. Len(info) : info[j].lefClass = CLASS_ROUTE}}

MinRoute(info) ==
    IF RouteTypes(info) = {} THEN -1
    ELSE CHOOSE m \in RouteTypes(info) : \A t \in RouteTypes(info) : m <= t

MaxRoute(info) ==
    IF RouteTypes(info) = {} THEN -1
    ELSE CHOOSE m \in RouteTypes(info) : \A t \in RouteTypes(info) : t <= m

InRange(layer, minr, maxr) == layer >= minr /\ layer <= maxr

\* the loop that lowers baselayer over via.lr
RECURSIVE BaseLoop(_, _, _, _, _)
BaseLoop(lr, k, minr, maxr, st) ==
    IF k > Len(lr) THEN st
    ELSE IF InRange(lr[k].layer, minr, maxr) /\ lr[k].layer < st.base
         THEN BaseLoop(lr, k + 1, minr, maxr,
                       [st EXCEPT !.base = lr[k].layer, !.xyb = Diff(lr[k])])
         ELSE BaseLoop(lr, k + 1, minr, maxr, st)

\* the loop that raises toplayer over via.lr
RECURSIVE TopLoop(_, _, _, _, _)
TopLoop(lr, k, minr, maxr, st) ==
    IF k > Len(lr) THEN st
    ELSE IF InRange(lr[k].layer, minr, maxr) /\ lr[k].layer > st.top
         THEN TopLoop(lr, k + 1, minr, maxr,
                      [st EXCEPT !.top = lr[k].layer, !.xyt = Diff(lr[k])])
         ELSE TopLoop(lr, k + 1, minr, maxr, st)

\* baselayer, toplayer, xybdiff, xytdiff of one via.  xybdiff and xytdiff are
\* locals of the function that keep their value from the previous via when
\* this one does not set them.
ViaLayers(l, minr, maxr, xyb, xyt) ==
    LET s0 == IF InRange(l.area.layer, minr, maxr)
              THEN [base |-> l.area.layer, top |-> l.area.layer,
                    xyb |-> Diff(l.area), xyt |-> Diff(l.area)]
              ELSE [base |-> MAX_LAYERS, top |-> MAX_LAYERS, xyb |-> xyb, xyt |-> xyt]
        s1 == BaseLoop(l.lr, 1, minr, maxr, s0)
    IN  TopLoop(l.lr, 1, minr, maxr, [s1 EXCEPT !.top = s1.base])

InAllowed(allowed, name) == \E k \in 1 .. Len(allowed) : allowed[k] = name

\* the mutant: every via is let through
ViaAdmittedAlways(l, base, allowed, hasGen) == TRUE

\* the test that lets a via through to the slot assignments
ViaAdmitted(l, base, allowed, hasGen) ==
    IF allowed # <<>> THEN InAllowed(allowed, l.lefName)
    ELSE ~(hasGen[base] /\ ~l.generated)

SetIfNull(tab, b, name) == IF tab[b] = NULL THEN [tab EXCEPT ![b] = name] ELSE tab

\* the slot assignments of pass p for a via that was admitted
PassAssign(p, acc, b, t, d, name) ==
    IF p = 1 THEN
        IF t > EPS /\ d < -EPS THEN [acc EXCEPT !.yx[b] = name]
        ELSE IF t < -EPS /\ d > EPS THEN [acc EXCEPT !.xy[b] = name]
        ELSE IF t > EPS /\ d > EPS THEN [acc EXCEPT !.xx[b] = name]
        ELSE IF t < -EPS /\ d < -EPS THEN [acc EXCEPT !.yy[b] = name]
        ELSE acc
    ELSE IF p = 2 THEN
        IF t < EPS /\ t > -EPS THEN
            IF d > EPS
            THEN [acc EXCEPT !.xx = SetIfNull(acc.xx, b, name),
                             !.xy = SetIfNull(acc.xy, b, name)]
            ELSE IF d < -EPS
            THEN [acc EXCEPT !.yx = SetIfNull(acc.yx, b, name),
                             !.yy = SetIfNull(acc.yy, b, name)]
            ELSE acc
        ELSE IF d < EPS /\ d > -EPS THEN
            IF t > EPS
            THEN [acc EXCEPT !.xx = SetIfNull(acc.xx, b, name),
                             !.yx = SetIfNull(acc.yx, b, name)]
            ELSE IF t < -EPS
            THEN [acc EXCEPT !.xy = SetIfNull(acc.xy, b, name),
                             !.yy = SetIfNull(acc.yy, b, name)]
            ELSE acc
        ELSE acc
    ELSE
        IF (t < EPS /\ t > -EPS) /\ (d < EPS /\ d > -EPS)
        THEN [acc EXCEPT !.xx = SetIfNull(acc.xx, b, name),
                         !.xy = SetIfNull(acc.xy, b, name),
                         !.yx = SetIfNull(acc.yx, b, name),
                         !.yy = SetIfNull(acc.yy, b, name)]
        ELSE acc

\* one of the three passes over LefInfo
RECURSIVE ViaPass(_, _, _, _, _, _, _, _)
ViaPass(p, info, i, minr, maxr, allowed, hasGen, acc) ==
    IF i > Len(info) THEN acc
    ELSE LET l == info[i] IN
         IF ~(l.lefClass = CLASS_VIA /\ l.lr # <<>>)
         THEN ViaPass(p, info, i + 1, minr, maxr, allowed, hasGen, acc)
         ELSE LET v == ViaLayers(l, minr, maxr, acc.xyb, acc.xyt)
                  a1 == [acc EXCEPT !.xyb = v.xyb, !.xyt = v.xyt]
              IN  IF v.base < MAX_LAYERS /\ v.top < MAX_LAYERS
                       /\ v.base >= 0 /\ v.top >= 0
                       /\ ViaAdmitted(l, v.base, allowed, hasGen)
                  THEN ViaPass(p, info, i + 1, minr, maxr, allowed, hasGen,
                               PassAssign(p, a1, v.base, v.xyt, v.xyb, l.lefName))
                  ELSE ViaPass(p, info, i + 1, minr, maxr, allowed, hasGen, a1)

NullTable == [b \in Layers |-> NULL]

First3(a, b, c) == IF a # NULL THEN a ELSE IF b # NULL THEN b ELSE c

\* CopyBack without the fallbacks between the four slots
CopyBackNoFallback(old, new) ==
    [xx |-> [b \in Layers |->
                IF new.xx[b] = NULL /\ new.xy[b] = NULL /\ new.yx[b] = NULL /\ new.yy[b] = NULL
                THEN old.xx[b] ELSE new.xx[b]],
     xy |-> [b \in Layers |->
                IF new.xx[b] = NULL /\ new.xy[b] = NULL /\ new.yx[b] = NULL /\ new.yy[b] = NULL
                THEN old.xy[b] ELSE new.xy[b]],
     yx |-> [b \in Layers |->
                IF new.xx[b] = NULL /\ new.xy[b] = NULL /\ new.yx[b] = NULL /\ new.yy[b] = NULL
                THEN old.yx[b] ELSE new.yx[b]],
     yy |-> [b \in Layers |->
                IF new.xx[b] = NULL /\ new.xy[b] = NULL /\ new.yx[b] = NULL /\ new.yy[b] = NULL
                THEN old.yy[b] ELSE new.yy[b]]]

\* The copy of newVia** into Via** with its fallbacks: [xx, xy, yx, yy].
CopyBack(old, new) ==
    [xx |-> [b \in Layers |->
                IF new.xx[b] = NULL /\ new.xy[b] = NULL /\ new.yx[b] = NULL /\ new.yy[b] = NULL
                THEN old.xx[b]
                ELSE IF new.xx[b] # NULL THEN new.xx[b]
                ELSE First3(new.xy[b], new.yx[b], new.yy[b])],
     xy |-> [b \in Layers |->
                IF new.xx[b] = NULL /\ new.xy[b] = NULL /\ new.yx[b] = NULL /\ new.yy[b] = NULL
                THEN old.xy[b]
                ELSE IF new.xy[b] # NULL THEN new.xy[b]
                ELSE First3(new.xx[b], new.yy[b], new.yx[b])],
     yx |-> [b \in Layers |->
                IF new.xx[b] = NULL /\ new.xy[b] = NULL /\ new.yx[b] = NULL /\ new.yy[b] = NULL
                THEN old.yx[b]
                ELSE IF new.yx[b] # NULL THEN new.yx[b]
                ELSE First3(new.yy[b], new.xx[b], new.xy[b])],
     yy |-> [b \in Layers |->
                IF new.xx[b] = NULL /\ new.xy[b] = NULL /\ new.yx[b] = NULL /\ new.yy[b] = NULL
                THEN old.yy[b]
                ELSE IF new.yy[b] # NULL THEN new.yy[b]
                ELSE First3(new.yx[b], new.xy[b], new.xx[b])]]

\* The three passes.  uninit is the value xytdiff happens to hold before its
\* first assignment (xybdiff is always assigned before it is read).
ViaPasses(info, allowed, hasGen, uninit) ==
    LET a0 == [xx |-> NullTable, xy |-> NullTable, yx |-> NullTable, yy |-> NullTable,
               xyb |-> uninit, xyt |-> uninit]
        minr == MinRoute(info)
        maxr == MaxRoute(info)
    IN  ViaPass(3, info, 1, minr, maxr, allowed, hasGen,
                ViaPass(2, info, 1, minr, maxr, allowed, hasGen,
                        ViaPass(1, info, 1, minr, maxr, allowed, hasGen, a0)))

\* The whole function: the registry (generate flags may be cleared) and the
\* four tables afterwards.
AssignLayerVias(info, allowed, old, uninit) ==
    LET g == GenerateScan(info, [b \in Layers |-> FALSE], 1)
        new == ViaPasses(g.info, allowed, g.hasGenerate, uninit)
    IN  [info |-> g.info, hasGenerate |-> g.hasGenerate, tables |-> CopyBack(old, new)]

(***************************************************************************)
(* VIA and VIARULE GENERATE sections (LefRead, LefReadLayerSection).       *)
(***************************************************************************)
\* LefAddViaGeometry: the first rectangle becomes via.area and is added to
\* the enclosures already read; later ones are prepended to via.lr.
LefAddViaGeometry(l, r) ==
    IF l.area.layer < 0
    THEN [l EXCEPT !.area = r,
                   !.lr = [k \in 1 .. Len(l.lr) |->
                              Rect(l.lr[k].layer, l.lr[k].w + r.w, l.lr[k].h + r.h)]]
    ELSE [l EXCEPT !.lr = <<r>> \o l.lr]

\* One statement of a VIA / VIARULE section, with the layer the preceding
\* LAYER statement selected (curlayer, -1 for an unknown layer name).
ViaStatement(l, st, mode) ==
    IF st.kw = "RECT"
    THEN IF st.layer >= 0 THEN LefAddViaGeometry(l, Rect(st.layer, st.w, st.h)) ELSE l
    ELSE IF mode = "VIARULE"
         THEN [l EXCEPT !.lr = <<Rect(st.layer, st.w, st.h)>> \o l.lr,
                        !.generated = TRUE]
         ELSE l

\* LefReadLayerSection over the statements of a via section
RECURSIVE LefReadViaSection(_, _, _, _)
LefReadViaSection(l, body, mode, k) ==
    IF k > Len(body) THEN l
    ELSE LefReadViaSection(ViaStatement(l, body[k], mode), body, mode, k + 1)

\* LefRedefined counts the list entries that are the record itself.  The list
\* links the records through their own next field, so an entry is a record.
RecordCount(info, i) == Cardinality({j \in 1 .. Len(info) : j = i})

\* the state LefRedefined leaves a record in
ResetRecord(l) == [l EXCEPT !.type = -1, !.obsType = -1, !.area = NoRect, !.lr = <<>>]

\* LefRedefined taking the branch for several entries on every call
LefRedefinedSplit(info, i, redefname) ==
    [info |-> <<ResetRecord(LefNewVia(redefname))>> \o info, idx |-> 1]

\* LefRedefined: [info, idx] is the list afterwards and the record returned.
\* In the branch for several entries the new record is malloc'ed and its name
\* is copied from itself; UNINIT stands for that content.
LefRedefined(info, i, redefname) ==
    IF RecordCount(info, i) = 1
    THEN [info |-> [info EXCEPT ![i] = ResetRecord(@)], idx |-> i]
    ELSE LET alt == {j \in 1 .. Len(info) : info[j].lefName # redefname}
             first == LefFindLayer(info, redefname)
             renamed == IF alt # {}
                        THEN [info EXCEPT ![first].lefName =
                                  info[CHOOSE j \in alt : \A m \in alt : j <= m].lefName]
                        ELSE info
         IN  [info |-> <<ResetRecord([LefNewVia("UNINIT") EXCEPT !.lefClass = "UNINIT"])>>
                          \o renamed,
              idx |-> 1]
(***************************************************************************)
(* Values of each group of variables while another state machine runs.     *)
(***************************************************************************)
IdlePoly == plist = <<>> /\ rectList = <<>> /\ polyPc = "idle"

NoTok == [kind |-> "none"]

IdleRoute ==
    /\ rnet = [netname |-> "none"]
    /\ rspecial = FALSE
    /\ rloc = [valid |-> FALSE]
    /\ UserObs = <<>>
    /\ rtok = NoTok
    /\ rcount = 0
    /\ routePc = "idle"

IdleNets ==
    /\ Nlnets = <<>>
    /\ netidx = 0
    /\ netsPc = "idle"
    /\ nsect = 0
    /\ nstmts = 0

IdleLayer == lbody = <<>> /\ ltok = NoTok /\ layerPc = "idle"

IdleCall == callIn = NoTok /\ callOut = NoTok

\* DefHashInit: both tables are empty
IdleHash == Nlgates = <<>> /\ InstanceTable = <<>> /\ NetTable = <<>>

IdleDef == defPc = "idle" /\ dloc = NoTok /\ cloc = NoTok

IdleMacro == GateInfo = <<>>

\* the globals before DefRead
IdleBounds ==
    /\ Xlowerbound = 0 /\ Xupperbound = 0 /\ Ylowerbound = 0 /\ Yupperbound = 0
    /\ Tracks = <<>>
    /\ Pitch = NoTok

IdleRest == IdleCall /\ IdleHash /\ IdleDef /\ IdleMacro /\ IdleBounds

(***************************************************************************)
(* SpecVia: VIA / VIARULE sections, the allow-list, LefAssignLayerVias.    *)
(***************************************************************************)
MaxVias == 2

ViaNames == {"VA", "VB"}

\* allow-lists: none, one that names a via, one that names no via
AllowedLists == {<<>>, <<"VA">>, <<"VX">>}

\* (x2 - x1, y2 - y1) of the metal rectangles: X - Y differences -2 .. 2
Shapes == {<<2, 4>>, <<3, 4>>, <<4, 4>>, <<4, 2>>}

CutShape == <<2, 2>>

\* values an uninitialised xytdiff may hold
UninitDiffs == {-2, -1, 0, 2}

RectSt(layer, s) == [kw |-> "RECT", layer |-> layer, w |-> s[1], h |-> s[2]]

EncSt(layer, s) == [kw |-> "ENCLOSURE", layer |-> layer, w |-> s[1], h |-> s[2]]

\* bodies of VIA sections: routing layers 0 and 1, cut layer 2
ViaBodies ==
    {<<RectSt(0, a), RectSt(2, CutShape), RectSt(1, b)>> : a \in Shapes, b \in Shapes}
    \cup {<<RectSt(2, CutShape), RectSt(0, a)>> : a \in Shapes}
    \cup {<<RectSt(0, a), RectSt(2, CutShape)>> : a \in Shapes}
    \cup {<<RectSt(2, CutShape), RectSt(1, a)>> : a \in Shapes}

\* bodies of VIARULE GENERATE sections; -1 is a layer name that is not defined
RuleBodies ==
    {<<EncSt(0, a), EncSt(1, b), RectSt(2, CutShape)>> : a \in Shapes, b \in {<<3, 4>>, <<4, 2>>}}
    \cup {<<EncSt(-1, CutShape), EncSt(1, b), RectSt(2, CutShape)>> : b \in Shapes}
    \cup {<<EncSt(1, b), RectSt(2, CutShape)>> : b \in Shapes}

\* the registry after the LAYER sections of a two-metal technology were read
TechRoute ==
    [NoRoute EXCEPT !.width = 2, !.spacing = <<[width |-> 0, spacing |-> 2]>>,
                    !.pitchx = 10, !.pitchy = 10, !.offsetx = 5, !.offsety = 5]

TechLayers ==
    << [LefNewRoute("V1") EXCEPT !.lefClass = CLASS_CUT, !.type = 2],
       [LefNewRoute("M2") EXCEPT !.lefClass = CLASS_ROUTE, !.type = 1, !.route = TechRoute],
       [LefNewRoute("M1") EXCEPT !.lefClass = CLASS_ROUTE, !.type = 0, !.route = TechRoute] >>

NumVias(info) == Cardinality({i \in 1 .. Len(info) : info[i].lefClass = CLASS_VIA})

IdleVia ==
    /\ LefInfo = TechLayers
    /\ AllowedVias = <<>>
    /\ ViaXX = NullTable
    /\ ViaXY = NullTable
    /\ ViaYX = NullTable
    /\ ViaYY = NullTable
    /\ lefPc = "read"

InitVia == IdleVia /\ IdlePoly /\ IdleRoute /\ IdleNets /\ IdleLayer /\ IdleRest

\* LefRead, VIA section with a name that is not in the registry
LefReadVia ==
    \E name \in ViaNames, body \in ViaBodies :
        /\ LefFindLayer(LefInfo, name) = 0
        /\ NumVias(LefInfo) < MaxVias
        /\ LefInfo' = <<LefReadViaSection(LefNewVia(name), body, "VIA", 1)>> \o LefInfo
        /\ lefPc' = "read"
        /\ UNCHANGED <<AllowedVias, ViaXX, ViaXY, ViaYX, ViaYY, notVia>>

\* LefRead, VIARULE <name> GENERATE section: the via <name>_0 is always a new
\* record
LefReadViaRule ==
    \E name \in ViaNames, body \in RuleBodies :
        /\ NumVias(LefInfo) < MaxVias
        /\ LefInfo' = <<LefReadViaSection(LefNewVia(name), body, "VIARULE", 1)>> \o LefInfo
        /\ lefPc' = "read"
        /\ UNCHANGED <<AllowedVias, ViaXX, ViaXY, ViaYX, ViaYY, notVia>>

\* the allow-list is replaced
SetAllowedVias ==
    \E list \in AllowedLists :
        /\ list # AllowedVias
        /\ AllowedVias' = list
        /\ lefPc' = "read"
        /\ UNCHANGED <<LefInfo, ViaXX, ViaXY, ViaYX, ViaYY, notVia>>

\* LefAssignLayerVias
LefAssignLayerVias ==
    \E r \in {AssignLayerVias(LefInfo, AllowedVias,
                              [xx |-> ViaXX, xy |-> ViaXY, yx |-> ViaYX, yy |-> ViaYY], u) :
                  u \in UninitDiffs} :
        /\ LefInfo' = r.info
        /\ ViaXX' = r.tables.xx
        /\ ViaXY' = r.tables.xy
        /\ ViaYX' = r.tables.yx
        /\ ViaYY' = r.tables.yy
        /\ lefPc' = "assigned"
        /\ UNCHANGED <<AllowedVias, notVia>>

NextVia ==
    \/ LefReadVia
    \/ LefReadViaRule
    \/ SetAllowedVias
    \/ LefAssignLayerVias

SpecVia == InitVia /\ [][NextVia]_vars
(***************************************************************************)
(* C1: the four orientation slots after LefAssignLayerVias.                *)
(***************************************************************************)
IsVia(l) == l.lefClass = CLASS_VIA /\ l.lr # <<>>

\* the routing layers a via has metal on
MetalLayers(l) ==
    {x \in {l.area.layer} \cup {l.lr[k].layer : k \in 1 .. Len(l.lr)} :
        InRange(x, MinRoute(LefInfo), MaxRoute(LefInfo))}

\* a valid via of base layer b: its lowest routing layer is b
ValidViaOn(l, b) ==
    /\ IsVia(l)
    /\ b \in MetalLayers(l)
    /\ \A x \in MetalLayers(l) : b <= x

AllSlots(b) == ViaXX[b] # NULL /\ ViaXY[b] # NULL /\ ViaYX[b] # NULL /\ ViaYY[b] # NULL

NoSlots(b) == ViaXX[b] = NULL /\ ViaXY[b] = NULL /\ ViaYX[b] = NULL /\ ViaYY[b] = NULL

\* the via passes the allow-list, or without a list the generate filter
Admitted(l, b) ==
    IF AllowedVias # <<>> THEN InAllowed(AllowedVias, l.lefName)
    ELSE l.generated \/ ~GenerateScan(LefInfo, [x \in Layers |-> FALSE], 1).hasGenerate[b]

\* both X - Y differences are set by the via's own rectangles, and neither is
\* exactly EPS in magnitude
ClearShape(l) ==
    LET v == ViaLayers(l, MinRoute(LefInfo), MaxRoute(LefInfo), -2, -2)
        w == ViaLayers(l, MinRoute(LefInfo), MaxRoute(LefInfo), 2, 2)
    IN  /\ v = w
        /\ ABSDIFF(v.xyb, 0) # EPS
        /\ ABSDIFF(v.xyt, 0) # EPS

UsableViaOn(l, b) == ValidViaOn(l, b) /\ Admitted(l, b) /\ ClearShape(l)

MaxPts == 8

XCoords == 0 .. 3

YCoords == 0 .. 2

HEDGE == "HEDGE"
REDGE == "REDGE"
FEDGE == "FEDGE"

Pt(x, y) == [x |-> x, y |-> y]

\* the list with the first point duplicated at the tail when the tail differs
ClosePath(pl) ==
    IF pl = <<>> THEN pl
    ELSE IF pl[Len(pl)] # pl[1] THEN Append(pl, pl[1]) ELSE pl

\* the direction of the edge from p to q; "NONE" when it is not Manhattan
EdgeDir(p, q) ==
    IF p.y = q.y THEN HEDGE
    ELSE IF p.x = q.x THEN (IF p.y < q.y THEN REDGE ELSE FEDGE)
    ELSE "NONE"

\* lefOrient: TRUE when every edge got a direction
lefOrient(cl, npts) == \A n \in 1 .. npts : EdgeDir(cl[n], cl[n + 1]) # "NONE"

\* lefCross without the test of the upper end of the edge
lefCrossNoTop(cl, n, ybot, ytop) ==
    LET d == EdgeDir(cl[n], cl[n + 1])
    IN  IF d = REDGE THEN cl[n].y <= ybot
        ELSE IF d = FEDGE THEN cl[n + 1].y <= ybot
        ELSE FALSE

\* lefCross for the edge that starts at point n
lefCross(cl, n, ybot, ytop) ==
    LET d == EdgeDir(cl[n], cl[n + 1])
    IN  IF d = REDGE THEN cl[n].y <= ybot /\ cl[n + 1].y >= ytop
        ELSE IF d = FEDGE THEN cl[n + 1].y <= ybot /\ cl[n].y >= ytop
        ELSE FALSE

\* qsort with lefLowY: the sweep reads only the y values of pts[]
RECURSIVE InsertSorted(_, _)
InsertSorted(sq, v) ==
    IF sq = <<>> THEN <<v>>
    ELSE IF v <= Head(sq) THEN <<v>> \o sq
    ELSE <<Head(sq)>> \o InsertSorted(Tail(sq), v)

RECURSIVE SortedYs(_, _)
SortedYs(cl, npts) ==
    IF npts = 0 THEN <<>> ELSE InsertSorted(SortedYs(cl, npts - 1), cl[npts].y)

\* all orders of a set of edge indices
RECURSIVE Perms(_)
Perms(S) ==
    IF S = {} THEN {<<>>}
    ELSE UNION {{<<e>> \o t : t \in Perms(S \ {e})} : e \in S}

\* qsort with lefLowX: every order of edges[] that ascends in x; the order of
\* edges with equal x is whatever the sort leaves
RECURSIVE EdgeOrders(_, _, _)
EdgeOrders(cl, npts, xs) ==
    IF xs = {} THEN {<<>>}
    ELSE LET x == CHOOSE m \in xs : \A o \in xs : m <= o
             grp == {n \in 1 .. npts : cl[n].x = x}
         IN  {a \o b : a \in Perms(grp), b \in EdgeOrders(cl, npts, xs \ {x})}

\* the inner loop over edges[] for one y-range: st = [wrapno, xbot, rex]
RECURSIVE ScanEdges(_, _, _, _, _, _)
ScanEdges(cl, order, k, ybot, ytop, st) ==
    IF k > Len(order) THEN st.rex
    ELSE LET n == order[k]
             xbot == IF st.wrapno = 0 THEN cl[n].x ELSE st.xbot
         IN  IF ~lefCross(cl, n, ybot, ytop)
             THEN ScanEdges(cl, order, k + 1, ybot, ytop, [st EXCEPT !.xbot = xbot])
             ELSE LET w == st.wrapno + (IF EdgeDir(cl[n], cl[n + 1]) = REDGE THEN 1 ELSE -1)
                  IN  IF w = 0 /\ xbot # cl[n].x
                      THEN ScanEdges(cl, order, k + 1, ybot, ytop,
                               [wrapno |-> w, xbot |-> xbot,
                                rex |-> <<[x1 |-> xbot, x2 |-> cl[n].x,
                                           y1 |-> ybot, y2 |-> ytop]>> \o st.rex])
                      ELSE ScanEdges(cl, order, k + 1, ybot, ytop,
                               [wrapno |-> w, xbot |-> xbot, rex |-> st.rex])

\* the index of the first entry of ys from curr on that differs from ybot,
\* 0 when there is none (goto done)
RECURSIVE NextY(_, _, _)
NextY(ys, curr, ybot) ==
    IF curr > Len(ys) THEN 0
    ELSE IF ys[curr] = ybot THEN NextY(ys, curr + 1, ybot)
    ELSE curr

\* the outer loop: curr is the 1-based position of pts[curr]
RECURSIVE Sweep(_, _, _, _, _)
Sweep(cl, order, ys, curr, rex) ==
    IF curr > Len(ys) THEN rex
    ELSE LET ybot == ys[curr - 1]
             c == NextY(ys, curr, ybot)
         IN  IF c = 0 THEN rex
             ELSE Sweep(cl, order, ys, c + 1,
                        ScanEdges(cl, order, 1, ybot, ys[c],
                                  [wrapno |-> 0, xbot |-> 0, rex |-> rex]))

\* LefPolygonToRects for one order of edges[]: the rectangles, "error" when
\* the list is refused
PolygonToRects(pl, order) ==
    LET cl == ClosePath(pl)
        npts == Len(cl) - 1
    IN  IF npts < 4 \/ ~lefOrient(cl, npts) THEN <<>>
        ELSE Sweep(cl, order, SortedYs(cl, npts), 2, <<>>)
\* the points a POLYGON statement may continue with: a corner of the outline,
\* so the new edge is horizontal or vertical and turns
NextPoints(pl) ==
    {q \in {Pt(x, y) : x \in XCoords, y \in YCoords} :
        \/ pl = <<>>
        \/ /\ q # pl[1]
           /\ EdgeDir(q, pl[1]) # "NONE"
           /\ Len(pl) >= 2 => EdgeDir(q, pl[1]) = HEDGE <=> EdgeDir(pl[1], pl[2]) # HEDGE}

InitPoly == IdleVia /\ IdlePoly /\ IdleRoute /\ IdleNets /\ IdleLayer /\ IdleRest

\* LefReadPolygon: one more point, put at the head of the list
LefReadPolygonPoint ==
    /\ polyPc \in {"idle", "points"}
    /\ Len(plist) < MaxPts
    /\ \E q \in NextPoints(plist) : plist' = <<q>> \o plist
    /\ polyPc' = "points"
    /\ UNCHANGED <<rectList, notPoly>>

\* LefPolygonToRects on the list read so far, when the list is accepted
LefPolygonToRects ==
    /\ polyPc = "points"
    /\ LET cl == ClosePath(plist)
           npts == Len(cl) - 1
       IN  /\ npts >= 4 /\ lefOrient(cl, npts)
           /\ \E order \in EdgeOrders(cl, npts, {cl[n].x : n \in 1 .. npts}) :
                 rectList' = rectList \o PolygonToRects(plist, order)
    /\ polyPc' = "rects"
    /\ UNCHANGED <<plist, notPoly>>

\* LefPolygonToRects on a list it refuses: fewer than 4 points, or an edge
\* that is not Manhattan
LefPolygonRefused ==
    /\ polyPc = "points"
    /\ LET cl == ClosePath(plist)
           npts == Len(cl) - 1
       IN  /\ ~(npts >= 4 /\ lefOrient(cl, npts))
           /\ rectList' = rectList \o PolygonToRects(plist, <<>>)
    /\ polyPc' = "error"
    /\ UNCHANGED <<plist, notPoly>>

NextPoly ==
    \/ LefReadPolygonPoint
    \/ LefPolygonToRects
    \/ LefPolygonRefused

SpecPoly == InitPoly /\ [][NextPoly]_vars

(***************************************************************************)
(* C2: the rectangles against the interior of the polygon, cell by cell.   *)
(***************************************************************************)
\* unit cells of the grid, named by their lower left corner
Cells == {c \in XCoords \X YCoords : (c[1] + 1) \in XCoords /\ (c[2] + 1) \in YCoords}

\* what the edge from p to q adds to the winding number of cell c: a ray from
\* the cell straight down crosses the horizontal edges below it
Crossing(p, q, c) ==
    IF p.y = q.y /\ p.y <= c[2] /\ Min2(p.x, q.x) <= c[1] /\ Max2(p.x, q.x) >= c[1] + 1
    THEN (IF q.x > p.x THEN 1 ELSE -1)
    ELSE 0

RECURSIVE Winding(_, _, _)
Winding(cl, n, c) ==
    IF n = 0 THEN 0 ELSE Crossing(cl[n], cl[n + 1], c) + Winding(cl, n - 1, c)

Interior(pl) == {c \in Cells : Winding(ClosePath(pl), Len(ClosePath(pl)) - 1, c) # 0}

RectCells(r) ==
    {c \in Cells : r.x1 <= c[1] /\ c[1] + 1 <= r.x2 /\ r.y1 <= c[2] /\ c[2] + 1 <= r.y2}

PitchX == 10
PitchY == 12

PathWidth(layer) == 4

CRASH == -1

\* LefFindLayerNum
LefFindLayerNum(info, name) ==
    IF LefFindLayer(info, name) = 0 THEN -1 ELSE info[LefFindLayer(info, name)].type

IsRouteLayer(info, layer) ==
    /\ LefFindLayerByNum(info, layer) # 0
    /\ info[LefFindLayerByNum(info, layer)].lefClass = CLASS_ROUTE

RouteOf(info, layer) == info[LefFindLayerByNum(info, layer)].route

\* LefGetRouteWidth
LefGetRouteWidth(info, layer) ==
    IF IsRouteLayer(info, layer) THEN RouteOf(info, layer).width
    ELSE Min2(PitchX, PitchY) \div 2

\* LefGetRouteSpacing
LefGetRouteSpacing(info, layer) ==
    IF IsRouteLayer(info, layer)
    THEN IF RouteOf(info, layer).spacing # <<>>
         THEN RouteOf(info, layer).spacing[1].spacing
         ELSE 0
    ELSE Min2(PitchX, PitchY) \div 2

\* LefGetRouteKeepout
LefGetRouteKeepout(info, layer) ==
    IF IsRouteLayer(info, layer)
    THEN IF RouteOf(info, layer).spacing # <<>>
         THEN RouteOf(info, layer).width \div 2 + RouteOf(info, layer).spacing[1].spacing
         ELSE CRASH
    ELSE Min2(PitchX, PitchY) - PathWidth(layer) \div 2

\* the loop of LefGetRouteWideSpacing over the rules from k on
RECURSIVE WideLoop(_, _, _, _)
WideLoop(rules, k, width, spacing) ==
    IF k > Len(rules) THEN spacing
    ELSE IF rules[k].width > width THEN spacing
    ELSE WideLoop(rules, k + 1, width, rules[k].spacing)

\* LefGetRouteWideSpacing
LefGetRouteWideSpacing(info, layer, width) ==
    IF IsRouteLayer(info, layer)
    THEN IF RouteOf(info, layer).spacing # <<>>
         THEN WideLoop(RouteOf(info, layer).spacing, 1, width,
                       RouteOf(info, layer).spacing[1].spacing)
         ELSE CRASH
    ELSE Min2(PitchX, PitchY) \div 2

\* LefGetRoutePitchX
LefGetRoutePitchX(info, layer) ==
    IF IsRouteLayer(info, layer) THEN RouteOf(info, layer).pitchx ELSE PitchX

\* LefGetRoutePitchY
LefGetRoutePitchY(info, layer) ==
    IF IsRouteLayer(info, layer) THEN RouteOf(info, layer).pitchy ELSE PitchY
(***************************************************************************)
(* DefAddRoutes (def.c 221-596), one token group at a time.  Coordinates   *)
(* are in tenths of the track pitch of the route model; the die's lower    *)
(* bounds are 0.  EPS in the grid computation is far below that unit.      *)
(***************************************************************************)
VDD_NET == 1
GND_NET == 2
MIN_NET_NUMBER == 4

Num_layers == 2

NET_IGNORED == "NET_IGNORED"
RT_CHECK == "RT_CHECK"
ST_WIRE == "ST_WIRE"
ST_VIA == "ST_VIA"

RoutePitch == 10

\* (int)(0.5 + ((x - lowerbound + EPS) / pitch)): the cast truncates toward 0
GridOf(x) ==
    LET n == 2 * x + RoutePitch
    IN  IF n >= 0 THEN n \div (2 * RoutePitch)
        ELSE -((-n - 1) \div (2 * RoutePitch))

\* ABSDIFF((double)refp, (x - lowerbound) / pitch) > 0.33
OffGrid(g, x) == 100 * ABSDIFF(g * RoutePitch, x) > 33 * RoutePitch

\* noobstruct without the test of NET_IGNORED
NoObstructPowerOnly(net, special) ==
    /\ special
    /\ net.netnum # VDD_NET
    /\ net.netnum # GND_NET

\* noobstruct
NoObstruct(net, special) ==
    /\ special
    /\ NET_IGNORED \notin net.flags
    /\ net.netnum # VDD_NET
    /\ net.netnum # GND_NET

\* the locals of DefAddRoutes at entry; x, y and w have no value yet and are
\* assigned before they are read in every run of the model.  newRoute is
\* TRUE while it points to the segment created last.
RouteLocals ==
    [valid |-> FALSE, refx |-> 0, refy |-> 0, x |-> 0, y |-> 0,
     routeLayer |-> -1, paintLayer |-> -1, w |-> 0, routednet |-> FALSE,
     newRoute |-> FALSE]

NewRouteRec(net) == [netnum |-> net.netnum, segments |-> <<>>, flags |-> {}]

\* net->routes with a new route record in front when routednet is NULL
WithRoute(net, loc) ==
    IF loc.routednet THEN net ELSE [net EXCEPT !.routes = <<NewRouteRec(net)>> \o @]

\* the mutant: the segment is put behind the segments of the top route
AddSegmentBehind(net, loc, seg) ==
    [WithRoute(net, loc) EXCEPT !.routes[1].segments = Append(@, seg)]

\* a segment put in front of the segments of the top route
AddSegment(net, loc, seg) ==
    [WithRoute(net, loc) EXCEPT !.routes[1].segments = <<seg>> \o @]

\* NEW <layer> [<width>], and the start of the statement.  st is
\* [net, loc, obs].
RouteNew(info, st, special, layername, wtok) ==
    LET routeLayer == LefFindLayerNum(info, layername)
        loc == [st.loc EXCEPT !.valid = FALSE, !.routeLayer = routeLayer]
    IN  IF routeLayer < 0 \/ routeLayer >= Num_layers
        THEN [st EXCEPT !.loc = loc]
        ELSE [st EXCEPT
                !.loc = [loc EXCEPT !.paintLayer = routeLayer,
                                    !.w = IF special /\ wtok # 0 THEN wtok
                                          ELSE LefGetRouteWidth(info, routeLayer),
                                    !.routednet = loc.routednet \/ ~special],
                !.net = IF special THEN st.net
                        ELSE [st.net EXCEPT !.routes = <<NewRouteRec(st.net)>> \o @]]

\* the obstruction of a via rectangle around (x, y); via rectangles are kept
\* at twice their size and are centred on the via
ViaObs(info, loc, r, layer) ==
    LET s == LefGetRouteSpacing(info, layer)
    IN  [x1 |-> loc.x - r.w \div 4 - s, x2 |-> loc.x + r.w \div 4 + s,
         y1 |-> loc.y - r.h \div 4 - s, y2 |-> loc.y + r.h \div 4 + s, layer |-> layer]

\* the walk over via.area and then via.lr: v = [routeLayer, paintLayer, obs]
RECURSIVE ViaRects(_, _, _, _, _, _)
ViaRects(info, loc, rects, k, obstruct, v) ==
    IF k > Len(rects) THEN v
    ELSE IF rects[k].layer >= Num_layers
         THEN ViaRects(info, loc, rects, k + 1, obstruct, v)
         ELSE ViaRects(info, loc, rects, k + 1, obstruct,
                  [routeLayer |-> rects[k].layer,
                   paintLayer |-> Min2(v.paintLayer, rects[k].layer),
                   obs |-> IF rects[k].layer >= 0 /\ obstruct
                           THEN <<ViaObs(info, loc, rects[k], rects[k].layer)>> \o v.obs
                           ELSE v.obs])

\* a via name in the route
RouteVia(info, st, special, vianame) ==
    LET loc == st.loc
        i == LefFindLayer(info, vianame)
    IN  IF ~loc.valid \/ i = 0 THEN st
        ELSE LET v == IF info[i].lefClass = CLASS_VIA
                      THEN LET u == ViaRects(info, loc, <<info[i].area>> \o info[i].lr, 1,
                                             special /\ loc.valid /\ ~NoObstruct(st.net, special),
                                             [routeLayer |-> -1, paintLayer |-> Num_layers - 1,
                                              obs |-> st.obs])
                           IN  IF u.routeLayer = -1
                               THEN [u EXCEPT !.paintLayer = info[i].type] ELSE u
                      ELSE [routeLayer |-> loc.routeLayer, paintLayer |-> info[i].type,
                            obs |-> st.obs]
                 loc1 == [loc EXCEPT !.routeLayer = v.routeLayer, !.paintLayer = v.paintLayer]
             IN  IF ~special /\ v.paintLayer >= 0 /\ v.paintLayer < Num_layers - 1
                 THEN [net |-> AddSegment(st.net, loc,
                                  [segtype |-> ST_VIA, x1 |-> loc.refx, y1 |-> loc.refy,
                                   x2 |-> loc.refx, y2 |-> loc.refy, layer |-> v.paintLayer]),
                       loc |-> [loc1 EXCEPT !.routednet = TRUE, !.newRoute = TRUE],
                       obs |-> v.obs]
                 ELSE [net |-> st.net, loc |-> loc1, obs |-> v.obs]
\* a coordinate token: a number or the wildcard *
Num(v) == [star |-> FALSE, v |-> v]

STAR == [star |-> TRUE, v |-> 0]

\* the obstruction of a special-net wire from (lx, ly) to (x, y)
WireObs(info, loc, lx, ly) ==
    LET s == LefGetRouteSpacing(info, loc.routeLayer)
        hw == loc.w \div 2
    IN  [x1 |-> IF lx > loc.x THEN loc.x - s
                ELSE IF lx < loc.x THEN lx - s ELSE loc.x - hw - s,
         x2 |-> IF lx > loc.x THEN lx + s
                ELSE IF lx < loc.x THEN loc.x + s ELSE loc.x + hw + s,
         y1 |-> IF ly > loc.y THEN loc.y - s
                ELSE IF ly < loc.y THEN ly - s ELSE loc.y - hw - s,
         y2 |-> IF ly > loc.y THEN ly + s
                ELSE IF ly < loc.y THEN loc.y + s ELSE loc.y + hw + s,
         layer |-> loc.routeLayer]

\* RT_CHECK on the route being built, when there is one
FlagCheck(net, loc) ==
    IF loc.routednet THEN [net EXCEPT !.routes[1].flags = @ \cup {RT_CHECK}] ELSE net

\* the X token of a point: [net, loc] afterwards
ReadX(net, loc, special, xt) ==
    IF xt.star THEN [net |-> net, loc |-> loc]
    ELSE [net |-> IF ~special /\ OffGrid(GridOf(xt.v), xt.v) THEN FlagCheck(net, loc) ELSE net,
          loc |-> [loc EXCEPT !.x = xt.v, !.refx = GridOf(xt.v)]]

\* the Y token of a point
ReadY(net, loc, special, yt) ==
    IF yt.star THEN [net |-> net, loc |-> loc]
    ELSE [net |-> IF ~special /\ OffGrid(GridOf(yt.v), yt.v) THEN FlagCheck(net, loc) ELSE net,
          loc |-> [loc EXCEPT !.y = yt.v, !.refy = GridOf(yt.v)]]

NonManhattanNever(ref, p) == FALSE

\* the new point differs from the reference point in both grid indices
NonManhattan(ref, p) == ref.refx # p.refx /\ ref.refy # p.refy

\* what the block of a freed segment holds afterwards: what it held, or
\* what the allocator wrote over it
HeapKept == [kept |-> TRUE, v |-> 0]

HeapOutcomes == {HeapKept, [kept |-> FALSE, v |-> 7]}

\* free(newRoute): the segment created last stays in the list of its route
\* and its block is released
FreeNewRoute(net, heap) ==
    LET S == {i \in 1 .. Len(net.routes) : net.routes[i].segments # <<>>}
        i == CHOOSE m \in S : \A n \in S : m <= n
    IN  IF heap.kept THEN net
        ELSE [net EXCEPT !.routes[i].segments[1] =
                 [@ EXCEPT !.x1 = heap.v, !.y1 = heap.v, !.x2 = heap.v, !.y2 = heap.v]]

\* a point ( X Y ) in the route
RoutePoint(info, st, special, xt, yt, heap) ==
    LET loc0 == [st.loc EXCEPT !.paintLayer = st.loc.routeLayer]
        lx == loc0.x
        ly == loc0.y
    IN  IF xt.star /\ ~loc0.valid THEN [st EXCEPT !.loc = loc0]
        ELSE LET a == ReadX(st.net, loc0, special, xt) IN
             IF yt.star /\ ~loc0.valid
             THEN [st EXCEPT !.net = IF a.loc.newRoute THEN FreeNewRoute(a.net, heap)
                                     ELSE a.net,
                             !.loc = [a.loc EXCEPT !.newRoute = FALSE]]
             ELSE LET b == ReadY(a.net, a.loc, special, yt)
                      loc == b.loc
                  IN  IF ~loc0.valid
                      THEN [st EXCEPT !.net = b.net, !.loc = [loc EXCEPT !.valid = TRUE]]
                      ELSE IF NonManhattan(loc0, loc)
                      THEN [st EXCEPT !.net = b.net, !.loc = loc]
                      ELSE IF special
                      THEN [st EXCEPT !.net = b.net, !.loc = loc,
                                      !.obs = IF ~NoObstruct(st.net, special)
                                              THEN <<WireObs(info, loc, lx, ly)>> \o @
                                              ELSE @]
                      ELSE IF loc.paintLayer >= 0 /\ loc.paintLayer < Num_layers
                      THEN [st EXCEPT
                              !.net = AddSegment(b.net, loc,
                                         [segtype |-> ST_WIRE,
                                          x1 |-> loc.refx, y1 |-> loc.refy,
                                          x2 |-> loc0.refx, y2 |-> loc0.refy,
                                          layer |-> loc.paintLayer]),
                              !.loc = [loc EXCEPT !.routednet = TRUE, !.newRoute = TRUE]]
                      ELSE [st EXCEPT !.net = b.net, !.loc = loc]

\* remove_top_route
remove_top_route(net) == [net EXCEPT !.routes = Tail(@)]

\* the stub test with an exemption for the power and ground nets
RouteEndKeepPower(st) ==
    IF /\ st.loc.routednet
       /\ st.net.netnum # VDD_NET /\ st.net.netnum # GND_NET
       /\ RT_CHECK \in st.net.routes[1].flags
       /\ Len(st.net.routes[1].segments) = 1
       /\ LET seg == st.net.routes[1].segments[1]
              ix == ABSDIFF(seg.x1, seg.x2)
              iy == ABSDIFF(seg.y1, seg.y2)
          IN  (ix = 0 /\ iy = 1) \/ (ix = 1 /\ iy = 0)
    THEN [st EXCEPT !.net = remove_top_route(st.net)]
    ELSE st

\* the end of DefAddRoutes: a flagged route of one wire one track long goes
RouteEnd(st) ==
    IF /\ st.loc.routednet
       /\ RT_CHECK \in st.net.routes[1].flags
       /\ Len(st.net.routes[1].segments) = 1
       /\ LET seg == st.net.routes[1].segments[1]
              ix == ABSDIFF(seg.x1, seg.x2)
              iy == ABSDIFF(seg.y1, seg.y2)
          IN  (ix = 0 /\ iy = 1) \/ (ix = 1 /\ iy = 0)
    THEN [st EXCEPT !.net = remove_top_route(st.net)]
    ELSE st
(***************************************************************************)
(* SpecRoute: one route of a net statement, read by DefAddRoutes.          *)
(***************************************************************************)
MaxToks == 5

\* the registry the DEF file is read against: two metals, a cut, one via
RouteTech ==
    <<LefReadViaSection(LefNewVia("VA"),
                        <<RectSt(0, <<8, 8>>), RectSt(2, <<4, 4>>), RectSt(1, <<8, 8>>)>>,
                        "VIA", 1)>> \o TechLayers

\* the nets a route statement may belong to when DefAddRoutes is entered
RoutedNets ==
    {[netname |-> "n", netnum |-> num, numnodes |-> 0, flags |-> fl,
      netnodes |-> <<>>, routes |-> <<>>] :
        num \in {VDD_NET, MIN_NET_NUMBER}, fl \in {{}, {NET_IGNORED}}}

RouteLayerNames == {"M1", "MX"}

RouteWidths == {0, 6}

XTokens == {Num(0), Num(4), Num(10), STAR}

YTokens == {Num(0), Num(10), STAR}

RouteViaNames == {"VA", "VX"}

RouteSt == [net |-> rnet, loc |-> rloc, obs |-> UserObs]

InitRoute ==
    /\ LefInfo = RouteTech
    /\ AllowedVias = <<>>
    /\ ViaXX = NullTable
    /\ ViaXY = NullTable
    /\ ViaYX = NullTable
    /\ ViaYY = NullTable
    /\ lefPc = "read"
    /\ IdlePoly
    /\ IdleNets
    /\ IdleLayer /\ IdleRest
    /\ rnet \in RoutedNets
    /\ rspecial \in BOOLEAN
    /\ rloc = RouteLocals
    /\ UserObs = <<>>
    /\ rtok = NoTok
    /\ rcount = 0
    /\ routePc = "idle"

\* the first pass of the loop, and every NEW after it
RouteNewTok ==
    /\ routePc \in {"idle", "route"}
    /\ rcount < MaxToks
    /\ \E name \in RouteLayerNames, w \in RouteWidths :
          /\ ~rspecial => w = 0
          /\ LET r == RouteNew(LefInfo, RouteSt, rspecial, name, w)
             IN  rnet' = r.net /\ rloc' = r.loc /\ UserObs' = r.obs
          /\ rtok' = [kind |-> "new", layer |-> name, w |-> w]
    /\ rcount' = rcount + 1
    /\ routePc' = "route"
    /\ UNCHANGED <<rspecial, notRoute>>

RoutePointTok ==
    /\ routePc = "route"
    /\ rcount < MaxToks
    /\ \E xt \in XTokens, yt \in YTokens, heap \in HeapOutcomes :
          /\ LET r == RoutePoint(LefInfo, RouteSt, rspecial, xt, yt, heap)
             IN  rnet' = r.net /\ rloc' = r.loc /\ UserObs' = r.obs
          /\ rtok' = [kind |-> "point", x |-> xt, y |-> yt]
    /\ rcount' = rcount + 1
    /\ UNCHANGED <<routePc, rspecial, notRoute>>

RouteViaTok ==
    /\ routePc = "route"
    /\ rcount < MaxToks
    /\ \E name \in RouteViaNames :
          /\ LET r == RouteVia(LefInfo, RouteSt, rspecial, name)
             IN  rnet' = r.net /\ rloc' = r.loc /\ UserObs' = r.obs
          /\ rtok' = [kind |-> "via", name |-> name]
    /\ rcount' = rcount + 1
    /\ UNCHANGED <<routePc, rspecial, notRoute>>

\* the ; or + that ends the route, and the stub test after the loop
RouteEndTok ==
    /\ routePc = "route"
    /\ LET r == RouteEnd(RouteSt)
       IN  rnet' = r.net /\ rloc' = r.loc /\ UserObs' = r.obs
    /\ rtok' = [kind |-> "end"]
    /\ routePc' = "done"
    /\ UNCHANGED <<rcount, rspecial, notRoute>>

NextRoute ==
    \/ RouteNewTok
    \/ RoutePointTok
    \/ RouteViaTok
    \/ RouteEndTok

SpecRoute == InitRoute /\ [][NextRoute]_vars
(***************************************************************************)
(* C5: wires of special nets.                                              *)
(***************************************************************************)
IsPower(net) == net.netnum = VDD_NET \/ net.netnum = GND_NET

\* a step that reads the second point of a wire on a known layer: there is a
\* reference point, both coordinates are read, and the two grid points share
\* a row or a column
WireStep ==
    /\ rtok'.kind = "point"
    /\ rcount' = rcount + 1
    /\ rloc.valid
    /\ rloc.routeLayer >= 0 /\ rloc.routeLayer < Num_layers
    /\ rloc'.refx = rloc.refx \/ rloc'.refy = rloc.refy

OneTrackRoute ==
    /\ rloc.routednet
    /\ Len(rnet.routes[1].segments) = 1
    /\ rnet.routes[1].segments[1].segtype = ST_WIRE
    /\ ABSDIFF(rnet.routes[1].segments[1].x1, rnet.routes[1].segments[1].x2)
         + ABSDIFF(rnet.routes[1].segments[1].y1, rnet.routes[1].segments[1].y2) = 1

EndStep == rtok'.kind = "end" /\ routePc = "route"

MaxNetStmts == 3
MaxSections == 3

vddnet == "vdd"
gndnet == "gnd"

\* sprintf(newname, "%250s_%d", mname, suffix): the name is padded on the
\* left to 250 characters, here to three
NewName(mname, suffix) == "  " \o mname \o "_" \o ToString(suffix)

MaxMacros == 4

\* the names that differ from their lower-case form
strlower(s) ==
    IF s = "A" THEN "a" ELSE IF s = "B" THEN "b" ELSE IF s = "INV" THEN "inv"
    ELSE IF \E k \in 1..MaxMacros : s = NewName("A", k)
         THEN NewName("a", CHOOSE k \in 1..MaxMacros : s = NewName("A", k))
    ELSE s

\* the libc function: 0 when the strings are equal ignoring case
strcasecmp(s, t) == IF strlower(s) = strlower(t) THEN 0 ELSE 1

\* DefFindNet, the linear scan: the index of the net in Nlnets, 0 for NULL
DefFindNet(nets, name) ==
    LET S == {i \in 1..Len(nets) : strcasecmp(nets[i].netname, name) = 0}
    IN  IF S = {} THEN 0 ELSE CHOOSE i \in S : \A j \in S : i <= j

\* DefReadGatePin: the node joins the net when the instance and pin exist
DefReadGatePin(net, nodenum, found) ==
    IF found
    THEN [net EXCEPT !.netnodes =
             <<[nodenum |-> nodenum, netnum |-> net.netnum, numnodes |-> 0]>> \o @]
    ELSE net

\* the connections ( inst pin ) of a statement from the k-th on
RECURSIVE Connections(_, _, _, _)
Connections(net, conns, k, nodeidx) ==
    IF k > Len(conns) THEN net
    ELSE Connections(DefReadGatePin(net, nodeidx, conns[k]), conns, k + 1, nodeidx + 1)

\* one statement "- name conns + prop route ;": [nets, netidx, obs]
NetStatement(info, nets, idx, obs, special, name, conns, prop) ==
    LET found == DefFindNet(nets, name)
        is_new == found = 0
        regular == name # vddnet /\ name # gndnet
        net0 == IF is_new
                THEN [netname |-> name,
                      netnum |-> IF name = vddnet THEN VDD_NET
                                 ELSE IF name = gndnet THEN GND_NET ELSE idx,
                      numnodes |-> 0, flags |-> {}, netnodes |-> <<>>, routes |-> <<>>]
                ELSE nets[found]
        net1 == Connections(net0, conns, 1, net0.numnodes)
        net2 == IF prop \in {"FIXED", "COVER"} /\ is_new
                THEN [net1 EXCEPT !.flags = @ \cup {NET_IGNORED}] ELSE net1
        st0 == [net |-> net2, loc |-> RouteLocals, obs |-> obs]
        st == IF prop = "none" THEN st0
              ELSE RouteEnd(RoutePoint(info,
                                RoutePoint(info, RouteNew(info, st0, special, "M1", 0),
                                           special, Num(0), Num(0), HeapKept),
                                special, Num(20), STAR, HeapKept))
    IN  [nets |-> IF is_new THEN Append(nets, st.net) ELSE [nets EXCEPT ![found] = st.net],
         netidx |-> IF is_new /\ regular THEN idx + 1 ELSE idx,
         obs |-> st.obs]

\* the two loops over netnodes at the end of a NETS section
CountNodes(net) ==
    LET n == net.numnodes + Len(net.netnodes)
    IN  [net EXCEPT !.numnodes = n,
                    !.netnodes = [k \in 1..Len(net.netnodes) |->
                                     [net.netnodes[k] EXCEPT !.numnodes = n]]]

InitNets ==
    /\ LefInfo = RouteTech
    /\ AllowedVias = <<>>
    /\ ViaXX = NullTable
    /\ ViaXY = NullTable
    /\ ViaYX = NullTable
    /\ ViaYY = NullTable
    /\ lefPc = "read"
    /\ IdlePoly
    /\ IdleRoute
    /\ IdleNets
    /\ IdleLayer /\ IdleRest

\* entry of DefReadNets
DefReadNetsStart ==
    /\ netsPc = "idle"
    /\ nsect < MaxSections
    /\ netsPc' \in {"NETS", "SPECIALNETS"}
    /\ netidx' = IF Len(Nlnets) = 0 THEN MIN_NET_NUMBER ELSE Len(Nlnets)
    /\ nsect' = nsect + 1
    /\ UNCHANGED <<Nlnets, nstmts, viaVars, polyVars, routeVars, layerVars, restVars>>

\* case DEF_NET_START
DefReadNet ==
    /\ netsPc # "idle"
    /\ nstmts < MaxNetStmts
    /\ \E name \in {"a", "b", vddnet},
          conns \in {<<>>, <<TRUE>>, <<FALSE, TRUE>>},
          prop \in {"none", "ROUTED", "FIXED"} :
          /\ prop # "none" => conns = <<>>
          /\ LET r == NetStatement(LefInfo, Nlnets, netidx, UserObs,
                                   netsPc = "SPECIALNETS", name, conns, prop)
             IN  Nlnets' = r.nets /\ netidx' = r.netidx /\ UserObs' = r.obs
    /\ nstmts' = nstmts + 1
    /\ UNCHANGED <<netsPc, nsect, viaVars, polyVars, layerVars, restVars,
                   rnet, rspecial, rloc, rtok, rcount, routePc>>

\* case DEF_NET_END and the code after the loop
DefReadNetsEnd ==
    /\ netsPc # "idle"
    /\ Nlnets' = IF netsPc = "NETS"
                 THEN [i \in 1..Len(Nlnets) |-> CountNodes(Nlnets[i])]
                 ELSE Nlnets
    /\ netsPc' = "idle"
    /\ UNCHANGED <<netidx, nsect, nstmts, viaVars, polyVars, routeVars, layerVars, restVars>>

NextNets ==
    \/ DefReadNetsStart
    \/ DefReadNet
    \/ DefReadNetsEnd

SpecNets == InitNets /\ [][NextNets]_vars

(***************************************************************************)
(* C3, C4: the net list after any sequence of sections.                    *)
(***************************************************************************)
\* C3: the numbers of the nets other than power and ground are pairwise
\* distinct and each is at least MIN_NET_NUMBER.
C3_RegularNetNumbers ==
    \A i \in 1..Len(Nlnets) :
        Nlnets[i].netname \notin {vddnet, gndnet} =>
            /\ Nlnets[i].netnum >= MIN_NET_NUMBER
            /\ \A j \in 1..Len(Nlnets) :
                  (j # i /\ Nlnets[j].netname \notin {vddnet, gndnet})
                      => Nlnets[j].netnum # Nlnets[i].netnum

\* C4: after the sections read so far, the node count of every net equals
\* the length of its member list and the count stored on each member.
C4_NodeCountsAgree ==
    netsPc = "idle" =>
        \A i \in 1..Len(Nlnets) :
            /\ Nlnets[i].numnodes = Len(Nlnets[i].netnodes)
            /\ \A k \in 1..Len(Nlnets[i].netnodes) :
                  Nlnets[i].netnodes[k].numnodes = Nlnets[i].numnodes
(***************************************************************************)
(* SpecLayer: a LAYER section of a routing layer read and read again, VIA  *)
(* sections that redefine a via, LefAssignLayerVias, and the rule queries. *)
(* The registry holds the via VA, the cut V1 and the route layer M1; the   *)
(* section defines M2 and opens with TYPE ROUTING.  Widths, spacings and   *)
(* pitches are even integers, so that the halves the code takes are exact. *)
(***************************************************************************)
MaxStmts == 3
MaxRedefs == 2

\* the loop that places newrule in lefl->info.route.spacing, for each of
\* the rules new[k..] in turn
RECURSIVE InsertRules(_, _, _)
InsertRules(rules, new, k) ==
    IF k > Len(new) THEN rules
    ELSE IF rules = <<>> THEN InsertRules(<<new[k]>>, new, k + 1)
    ELSE LET stops == {t \in 1 .. Len(rules) :
                          t = Len(rules) \/ rules[t + 1].width > new[k].width}
             t == CHOOSE u \in stops : \A v \in stops : u <= v
         IN  InsertRules(SubSeq(rules, 1, t) \o <<new[k]>>
                              \o SubSeq(rules, t + 1, Len(rules)), new, k + 1)

\* one statement of a LAYER section applied to lefl->info.route
LayerStatement(r, st) ==
    LET offsets(q) == [q EXCEPT !.offsetx = IF @ < 0 THEN q.pitchx \div 2 ELSE @,
                                !.offsety = IF @ < 0 THEN q.pitchy \div 2 ELSE @]
    IN  CASE st.kw = "WIDTH" -> [r EXCEPT !.width = st.v]
          [] st.kw = "SPACING" ->
                 [r EXCEPT !.spacing = <<[width |-> 0, spacing |-> st.v]>> \o @]
          [] st.kw = "RANGE" ->
                 [r EXCEPT !.spacing = InsertRules(@, <<[width |-> st.w, spacing |-> st.v]>>, 1)]
          [] st.kw = "SPACINGTABLE" ->
                 [r EXCEPT !.spacing = InsertRules(@, st.rows, 1)]
          [] st.kw = "PITCH" /\ st.n = 2 ->
                 offsets([r EXCEPT !.pitchx = st.x, !.pitchy = st.y])
          [] st.kw = "PITCH" /\ st.n = 1 ->
                 offsets([r EXCEPT
                     !.pitchx = IF r.hdirection = "HORIZONTAL" THEN 0 ELSE st.x,
                     !.pitchy = IF r.hdirection = "VERTICAL" THEN 0 ELSE st.x,
                     !.hdirection = IF @ = "UNKNOWN" THEN "RESOLVE" ELSE @])
          [] st.kw = "DIRECTION" ->
                 [r EXCEPT
                     !.pitchx = IF r.hdirection = "RESOLVE" /\ st.d = "h" THEN 0 ELSE @,
                     !.pitchy = IF r.hdirection = "RESOLVE" /\ st.d = "v" THEN 0 ELSE @,
                     !.hdirection = IF st.d = "h" THEN "HORIZONTAL" ELSE "VERTICAL"]

\* LefReadLayerSection over the statements body[k..] of a LAYER section
RECURSIVE LefReadLayerSection(_, _, _)
LefReadLayerSection(r, body, k) ==
    IF k > Len(body) THEN r
    ELSE LefReadLayerSection(LayerStatement(r, body[k]), body, k + 1)

\* the statements a LAYER section is built from
LayerStatements ==
    {[kw |-> "WIDTH", v |-> 2], [kw |-> "SPACING", v |-> 2], [kw |-> "SPACING", v |-> 4],
     [kw |-> "RANGE", v |-> 6, w |-> 4], [kw |-> "RANGE", v |-> 4, w |-> 2],
     [kw |-> "SPACINGTABLE", rows |-> <<[width |-> 0, spacing |-> 2],
                                        [width |-> 4, spacing |-> 6]>>],
     [kw |-> "PITCH", n |-> 1, x |-> 10, y |-> 10],
     [kw |-> "PITCH", n |-> 2, x |-> 8, y |-> 12],
     [kw |-> "DIRECTION", d |-> "h"], [kw |-> "DIRECTION", d |-> "v"]}

\* the body of the section "VIA VA" the registry was built from, and another
VABody == <<RectSt(0, <<8, 8>>), RectSt(2, <<4, 4>>), RectSt(1, <<8, 8>>)>>

OtherBody == <<RectSt(0, <<4, 8>>)>>

\* LefGetXYViaWidth; t holds the four via tables
LefGetXYViaWidth(info, t, base, layer, dir, orient) ==
    LET order == CASE orient = 0 -> <<t.xx, t.xy, t.yx, t.yy>>
                   [] orient = 1 -> <<t.xy, t.yx, t.yy, t.yx>>
                   [] orient = 2 -> <<t.yx, t.yy, t.xx, t.xy>>
                   [] orient = 3 -> <<t.yy, t.yx, t.xy, t.xx>>
        f1 == IF order[1][0] = NULL THEN 0 ELSE LefFindLayer(info, order[1][base])
        f2 == IF f1 # 0 THEN f1 ELSE LefFindLayer(info, order[2][base])
        f3 == IF f2 # 0 THEN f2 ELSE LefFindLayer(info, order[3][base])
        f4 == IF f3 # 0 THEN f3 ELSE LefFindLayer(info, order[4][base])
        dim(rect) == IF dir # 0 THEN rect.h \div 2 ELSE rect.w \div 2
    IN  IF f4 = 0 \/ info[f4].lefClass # CLASS_VIA THEN Min2(PitchX, PitchY) \div 2
        ELSE IF info[f4].area.layer = layer THEN dim(info[f4].area)
        ELSE LET S == {k \in 1 .. Len(info[f4].lr) : info[f4].lr[k].layer = layer}
             IN  IF S = {} THEN Min2(PitchX, PitchY) \div 2
                 ELSE dim(info[f4].lr[CHOOSE k \in S : \A m \in S : k <= m])

\* LefGetViaWidth
LefGetViaWidth(info, t, base, layer, dir) == LefGetXYViaWidth(info, t, base, layer, dir, 0)

InitLayer ==
    /\ LefInfo = <<RouteTech[1], TechLayers[1], TechLayers[3]>>
    /\ AllowedVias = <<>>
    /\ ViaXX = NullTable
    /\ ViaXY = NullTable
    /\ ViaYX = NullTable
    /\ ViaYY = NullTable
    /\ lefPc = "read"
    /\ IdlePoly
    /\ IdleRoute
    /\ IdleNets
    /\ IdleLayer /\ IdleRest

\* LefRead, LAYER M2 for the first time, and the statement TYPE ROUTING
LefReadLayerType ==
    /\ layerPc = "idle"
    /\ LefFindLayer(LefInfo, "M2") = 0
    /\ LefInfo' = <<[LefNewRoute("M2") EXCEPT !.lefClass = CLASS_ROUTE, !.route = NoRoute,
                                              !.type = LefGetMaxRouteLayer(LefInfo)]>>
                    \o LefInfo
    /\ ltok' = [kind |-> "type"]
    /\ layerPc' = "first"
    /\ UNCHANGED <<lbody, AllowedVias, ViaXX, ViaXY, ViaYX, ViaYY, lefPc,
                   polyVars, routeVars, netVars, restVars>>

\* one more statement of the section
LefReadLayerStatement ==
    /\ layerPc = "first"
    /\ Len(lbody) < MaxStmts
    /\ \E st \in LayerStatements :
          /\ LefInfo' = [LefInfo EXCEPT ![LefFindLayer(LefInfo, "M2")].route =
                            LayerStatement(@, st)]
          /\ lbody' = Append(lbody, st)
          /\ ltok' = [kind |-> "stmt", n |-> Len(lbody) + 1]
    /\ UNCHANGED <<layerPc, AllowedVias, ViaXX, ViaXY, ViaYX, ViaYY, lefPc,
                   polyVars, routeVars, netVars, restVars>>

\* LefRead, LAYER M2 once more with the same statements: the record is found
\* and has a type, TYPE ROUTING changes nothing, the rest is read into it
LefRereadLayer ==
    /\ layerPc = "first"
    /\ LefInfo[LefFindLayer(LefInfo, "M2")].type >= 0
    /\ LefInfo' = [LefInfo EXCEPT ![LefFindLayer(LefInfo, "M2")].route =
                      LefReadLayerSection(@, lbody, 1)]
    /\ ltok' = [kind |-> "reread"]
    /\ layerPc' = "second"
    /\ UNCHANGED <<lbody, AllowedVias, ViaXX, ViaXY, ViaYX, ViaYY, lefPc,
                   polyVars, routeVars, netVars, restVars>>

\* LefRead, VIA VA for a via that is in the registry
LefRedefineVia ==
    /\ ltok.kind = "via" => ltok.n < MaxRedefs
    /\ \E body \in {VABody, OtherBody} :
          /\ LET r == LefRedefined(LefInfo, LefFindLayer(LefInfo, "VA"), "VA")
             IN  LefInfo' = [r.info EXCEPT ![r.idx] = LefReadViaSection(@, body, "VIA", 1)]
          /\ ltok' = [kind |-> "via", same |-> body = VABody,
                      n |-> IF ltok.kind = "via" THEN ltok.n + 1 ELSE 1]
    /\ lefPc' = "read"
    /\ UNCHANGED <<lbody, layerPc, AllowedVias, ViaXX, ViaXY, ViaYX, ViaYY,
                   polyVars, routeVars, netVars, restVars>>

NextLayer ==
    \/ LefReadLayerType
    \/ LefReadLayerStatement
    \/ LefRereadLayer
    \/ LefRedefineVia
    \/ LefAssignLayerVias

SpecLayer == InitLayer /\ [][NextLayer]_vars
(***************************************************************************)
(* C7 - C10: redefinition, re-reading, the spacing list, the queries.      *)
(***************************************************************************)
\* a step that reads a VIA section for the registered name VA
ViaStep == ltok'.kind = "via" /\ ltok' # ltok

Queries(info, t) ==
    [width |-> [l \in Layers |-> LefGetRouteWidth(info, l)],
     spacing |-> [l \in Layers |-> LefGetRouteSpacing(info, l)],
     wide |-> [l \in Layers |-> [w \in 0 .. 6 |-> LefGetRouteWideSpacing(info, l, w)]],
     pitchx |-> [l \in Layers |-> LefGetRoutePitchX(info, l)],
     pitchy |-> [l \in Layers |-> LefGetRoutePitchY(info, l)],
     via |-> [b \in Layers |-> [l \in Layers |-> [d \in 0 .. 1 |->
                 LefGetViaWidth(info, t, b, l, d)]]]]

\* C8: reading the LAYER section, or the VIA section, a second time with the
\* same content leaves route width, route spacing, wide spacing, pitch X/Y
\* and via width as they were.
C8_RereadChangesNoQuery ==
    [][(\/ ltok'.kind = "reread" /\ ltok.kind # "reread"
        \/ ViaStep /\ ltok'.same
                   /\ LefInfo[LefFindLayer(LefInfo, "VA")] = RouteTech[1])
          => Queries(LefInfo', [xx |-> ViaXX', xy |-> ViaXY', yx |-> ViaYX', yy |-> ViaYY'])
               = Queries(LefInfo, [xx |-> ViaXX, xy |-> ViaXY, yx |-> ViaYX, yy |-> ViaYY])]_vars

\* C9: the spacing rules of every routing layer are in ascending order of
\* width.
C9_SpacingSorted ==
    \A i \in 1 .. Len(LefInfo) :
        LefInfo[i].lefClass = CLASS_ROUTE =>
            \A k \in 1 .. Len(LefInfo[i].route.spacing) - 1 :
                LefInfo[i].route.spacing[k].width <= LefInfo[i].route.spacing[k + 1].width

\* C10: route spacing and route keepout answer the stored rule of a routing
\* layer that has one and half the minimum pitch otherwise; via width answers
\* the extent of a rectangle stored for the layer on some via, or half the
\* minimum pitch; every answer is a number.
C10_QueriesFallBackToHalfPitch ==
    \A l \in Layers :
        LET half == Min2(PitchX, PitchY) \div 2
            stored == IsRouteLayer(LefInfo, l) /\ RouteOf(LefInfo, l).spacing # <<>>
            t == [xx |-> ViaXX, xy |-> ViaXY, yx |-> ViaYX, yy |-> ViaYY]
            rects == UNION {{LefInfo[i].area} \cup {LefInfo[i].lr[k] : k \in 1 .. Len(LefInfo[i].lr)} :
                              i \in {j \in 1 .. Len(LefInfo) : LefInfo[j].lefClass = CLASS_VIA}}
        IN  /\ LefGetRouteSpacing(LefInfo, l) =
                  IF stored THEN RouteOf(LefInfo, l).spacing[1].spacing ELSE half
            /\ LefGetRouteKeepout(LefInfo, l) =
                  IF stored THEN RouteOf(LefInfo, l).width \div 2
                                   + RouteOf(LefInfo, l).spacing[1].spacing
                  ELSE half
            /\ \A b \in Layers, d \in 0 .. 1 :
                  LefGetViaWidth(LefInfo, t, b, l, d)
                     \in {half} \cup {(IF d # 0 THEN r.h ELSE r.w) \div 2 :
                                         r \in {q \in rects : q.layer = l}}

(***************************************************************************)
(* Lookup (lef.c).  A string is a sequence of characters; the table is a   *)
(* sequence of strings and the index returned counts from 0.               *)
(***************************************************************************)
MaxTokLen == 2

MaxTable == 3

TokChars == {"a", "A", "b"}

isupper(c) == c \in {"A", "B"}

islower(c) == c \in {"a", "b"}

tolower(c) == IF c = "A" THEN "a" ELSE IF c = "B" THEN "b" ELSE c

toupper(c) == IF c = "a" THEN "A" ELSE IF c = "b" THEN "B" ELSE c

\* the tokens LefNextToken can deliver: not empty, no blank
LookupTokens == UNION {[1..n -> TokChars] : n \in 1..MaxTokLen}

\* table entries; pin_classes has an entry with a blank, "OUTPUT TRISTATE"
LookupEntries ==
    {<<"a">>, <<"A">>, <<"b">>, <<"a", "b">>, <<"a", "B">>, <<"b", "a">>,
     <<"a", " ", "b">>}

LookupTables == UNION {[1..n -> LookupEntries] : n \in 1..MaxTable}

\* the condition of the while loop: the characters agree, or differ in case
LookupSame(tabc, strc) ==
    \/ tabc = strc
    \/ isupper(tabc) /\ islower(strc) /\ tolower(tabc) = strc
    \/ islower(tabc) /\ isupper(strc) /\ toupper(tabc) = strc

\* the while loop over one entry: the position where it stops.  At the end
\* of the entry *tabc is '\0', which agrees with no character of str
RECURSIVE LookupScan(_, _, _)
LookupScan(str, ent, i) ==
    IF /\ i <= Len(str)
       /\ i <= Len(ent)
       /\ ent[i] # " "
       /\ LookupSame(ent[i], str[i])
    THEN LookupScan(str, ent, i + 1)
    ELSE i

\* the mutant: an exact match is recorded like an abbreviation
RECURSIVE LookupLoopNoExact(_, _, _, _)
LookupLoopNoExact(str, table, pos, match) ==
    IF pos >= Len(table)
    THEN match
    ELSE LET i == LookupScan(str, table[pos + 1], 1)
         IN  IF i = Len(str) + 1
             THEN LookupLoopNoExact(str, table, pos + 1,
                                    IF match = -2 THEN pos ELSE -1)
             ELSE LookupLoopNoExact(str, table, pos + 1, match)

\* the for loop from entry pos on
RECURSIVE LookupLoop(_, _, _, _)
LookupLoop(str, table, pos, match) ==
    IF pos >= Len(table)
    THEN match
    ELSE LET ent == table[pos + 1]
             i == LookupScan(str, ent, 1)
         IN  IF i = Len(str) + 1
             THEN IF i > Len(ent) \/ ent[i] = " "
                  THEN pos
                  ELSE LookupLoop(str, table, pos + 1,
                                  IF match = -2 THEN pos ELSE -1)
             ELSE LookupLoop(str, table, pos + 1, match)

Lookup(str, table) == LookupLoop(str, table, 0, -2)

InitLookup ==
    /\ IdleVia /\ IdlePoly /\ IdleRoute /\ IdleNets /\ IdleLayer /\ IdleHash /\ IdleDef /\ IdleMacro /\ IdleBounds
    /\ callIn \in [str : LookupTokens, table : LookupTables]
    /\ callOut = NoTok

notCall == <<viaVars, polyVars, routeVars, netVars, layerVars, hashVars, defVars,
             macroVars, boundVars>>

LookupCall ==
    /\ callOut = NoTok
    /\ callOut' = [match |-> Lookup(callIn.str, callIn.table)]
    /\ UNCHANGED <<callIn, notCall>>

NextLookup == LookupCall

SpecLookup == InitLookup /\ [][NextLookup]_vars

\* ---- what the keyword lookup is said to return
LowerStr(s) == [i \in 1..Len(s) |-> tolower(s[i])]

\* the part of an entry up to the first blank
RECURSIVE Significant(_)
Significant(ent) ==
    IF ent = <<>> \/ Head(ent) = " "
    THEN <<>>
    ELSE <<Head(ent)>> \o Significant(Tail(ent))

EqualNoCase(s, t) == LowerStr(s) = LowerStr(t)

PrefixNoCase(s, t) ==
    Len(s) <= Len(t) /\ LowerStr(s) = LowerStr(SubSeq(t, 1, Len(s)))

\* the value for the entries that equal str and those str is a prefix of
Expected(equal, prefix) ==
    IF equal # {}
    THEN equal
    ELSE IF prefix = {} THEN {-2}
    ELSE IF Cardinality(prefix) = 1 THEN prefix ELSE {-1}

Returned == callOut # NoTok

\* C11 as stated: the entry as a whole is compared with the token
C11_ExactEntryWins ==
    Returned =>
        LET str == callIn.str
            table == callIn.table
            equal == {p \in 0..(Len(table) - 1) : EqualNoCase(str, table[p + 1])}
            prefix == {p \in 0..(Len(table) - 1) : PrefixNoCase(str, table[p + 1])}
        IN  callOut.match \in Expected(equal, prefix)

\* C11: Lookup returns the index of the first entry whose part before the
\* first blank equals the token ignoring case, whatever the other entries
\* and their order; without such an entry it returns the index of the only
\* entry whose part before the first blank the token is a prefix of, -1 when
\* there are several and -2 when there is none.
C11_ExactKeywordWins ==
    Returned =>
        LET str == callIn.str
            table == callIn.table
            equal == {p \in 0..(Len(table) - 1) :
                        EqualNoCase(str, Significant(table[p + 1]))}
            prefix == {p \in 0..(Len(table) - 1) :
                        PrefixNoCase(str, Significant(table[p + 1]))}
            first == {p \in equal : \A q \in equal : p <= q}
        IN  callOut.match \in Expected(first, prefix)

\* an exact match in another case that comes after two entries the token
\* abbreviates
C11_Witness ==
    /\ Returned
    /\ callIn.str = <<"A">>
    /\ callIn.table = <<<<"a", "b">>, <<"a", "B">>, <<"a">>>>
    /\ callOut.match = 2


(***************************************************************************)
(* The instance and net lookups of def.c: the linear scans and, in the     *)
(* build with TCL_QROUTER, the hash tables kept beside the lists.          *)
(***************************************************************************)
MaxInserts == 3

HashNames == {"a", "A", "b"}

\* DefFindGate, the linear scan: the serial of the first instance of the
\* list whose name matches, 0 for NULL
DefFindGate(gates, name) ==
    LET S == {i \in 1..Len(gates) : strcasecmp(gates[i].gatename, name) = 0}
    IN  IF S = {} THEN 0 ELSE gates[CHOOSE i \in S : \A j \in S : i <= j].serial

\* Tcl_FindHashEntry and Tcl_GetHashValue with TCL_STRING_KEYS: the key is
\* the string itself; 0 for NULL
HashFind(table, name) == IF name \in DOMAIN table THEN table[name] ELSE 0

\* Tcl_CreateHashEntry and Tcl_SetHashValue: an entry with the key is reused
HashSet(table, name, value) ==
    [n \in DOMAIN table \cup {name} |-> IF n = name THEN value ELSE table[n]]

\* DefFindGate with the hash table
DefFindGateHash(table, name) == HashFind(table, name)

\* DefFindNet with the hash table
DefFindNetHash(nets, table, name) ==
    IF Len(nets) = 0 THEN 0 ELSE HashFind(table, name)

InitHash ==
    /\ IdleVia /\ IdlePoly /\ IdleRoute /\ IdleNets /\ IdleLayer /\ IdleCall
    /\ IdleHash /\ IdleDef /\ IdleMacro /\ IdleBounds

\* DefReadComponents and DefReadPins: the instance goes to the head of the
\* list and into the table
DefAddInstance ==
    /\ Len(Nlgates) < MaxInserts
    /\ \E name \in HashNames :
          LET gate == [gatename |-> name, serial |-> Len(Nlgates) + 1]
          IN  /\ Nlgates' = <<gate>> \o Nlgates
              /\ InstanceTable' = HashSet(InstanceTable, name, gate.serial)
    /\ UNCHANGED <<NetTable, viaVars, polyVars, routeVars, netVars, layerVars,
                   callVars, defVars, macroVars, boundVars>>

\* DefReadNets, DEF_NET_START: a net the lookup does not find is created
DefAddNet ==
    /\ Len(Nlnets) < MaxInserts
    /\ \E name \in HashNames :
          IF DefFindNetHash(Nlnets, NetTable, name) = 0
          THEN /\ Nlnets' = Append(Nlnets, [netname |-> name])
               /\ NetTable' = HashSet(NetTable, name, Len(Nlnets) + 1)
          ELSE UNCHANGED <<Nlnets, NetTable>>
    /\ UNCHANGED <<Nlgates, InstanceTable, netidx, netsPc, nsect, nstmts,
                   viaVars, polyVars, routeVars, layerVars, callVars, defVars,
                   macroVars, boundVars>>

NextHash == DefAddInstance \/ DefAddNet

SpecHash == InitHash /\ [][NextHash]_vars

\* C12: after every sequence of insertions the lookups through the hash
\* tables return, for every name, the record the linear scans return; this
\* includes names that differ from a stored name in letter case only and
\* lookups before any net exists.
C12_HashAgreesWithScan ==
    \A name \in HashNames :
        /\ DefFindGateHash(InstanceTable, name) = DefFindGate(Nlgates, name)
        /\ DefFindNetHash(Nlnets, NetTable, name) = DefFindNet(Nlnets, name)


(***************************************************************************)
(* DefReadComponents: the rectangles of the macro are copied to the        *)
(* instance and moved to its place.  The orientation is the set of the     *)
(* bits MX, MY and R90 that DefReadLocation puts into gate->orient.        *)
(***************************************************************************)
MaxCoord == 2

Orientations == {"N", "S", "E", "W", "FN", "FS", "FE", "FW"}

\* DefReadLocation: the flags of the orientation keyword
DefReadLocation(keyword) ==
    CASE keyword = "N" -> {}
      [] keyword = "S" -> {"MX", "MY"}
      [] keyword = "FN" -> {"MX"}
      [] keyword = "FS" -> {"MY"}
      [] keyword = "E" -> {"R90"}
      [] keyword = "W" -> {"R90", "MX", "MY"}
      [] keyword = "FE" -> {"R90", "MX"}
      [] keyword = "FW" -> {"R90", "MY"}

\* the mutant: the mirror in X is taken about the height of the macro
PlaceTapAboutHeight(d, gateginfo, gate) ==
    LET a == [d EXCEPT !.x1 = @ - gateginfo.placedX, !.x2 = @ - gateginfo.placedX,
                       !.y1 = @ - gateginfo.placedY, !.y2 = @ - gateginfo.placedY]
        b == IF "R90" \in gate.orient
             THEN [a EXCEPT !.y1 = -a.x1 + gateginfo.width, !.x1 = a.y1,
                            !.y2 = -a.x2 + gateginfo.width, !.x2 = a.y2]
             ELSE a
        c == IF "MX" \in gate.orient
             THEN [b EXCEPT !.x1 = -b.x2 + gate.placedX + gateginfo.height,
                            !.x2 = -b.x1 + gate.placedX + gateginfo.height]
             ELSE [b EXCEPT !.x1 = @ + gate.placedX, !.x2 = @ + gate.placedX]
    IN  IF "MY" \in gate.orient
        THEN [c EXCEPT !.y1 = -c.y2 + gate.placedY + gateginfo.height,
                       !.y2 = -c.y1 + gate.placedY + gateginfo.height]
        ELSE [c EXCEPT !.y1 = @ + gate.placedY, !.y2 = @ + gate.placedY]

\* the body of the loop over gate->taps[i]
PlaceTap(d, gateginfo, gate) ==
    LET a == [d EXCEPT !.x1 = @ - gateginfo.placedX, !.x2 = @ - gateginfo.placedX,
                       !.y1 = @ - gateginfo.placedY, !.y2 = @ - gateginfo.placedY]
        b == IF "R90" \in gate.orient
             THEN [a EXCEPT !.y1 = -a.x1 + gateginfo.width, !.x1 = a.y1,
                            !.y2 = -a.x2 + gateginfo.width, !.x2 = a.y2]
             ELSE a
        c == IF "MX" \in gate.orient
             THEN [b EXCEPT !.x1 = -b.x2 + gate.placedX + gateginfo.width,
                            !.x2 = -b.x1 + gate.placedX + gateginfo.width]
             ELSE [b EXCEPT !.x1 = @ + gate.placedX, !.x2 = @ + gate.placedX]
    IN  IF "MY" \in gate.orient
        THEN [c EXCEPT !.y1 = -c.y2 + gate.placedY + gateginfo.height,
                       !.y2 = -c.y1 + gate.placedY + gateginfo.height]
        ELSE [c EXCEPT !.y1 = @ + gate.placedY, !.y2 = @ + gate.placedY]

\* the body of the loop over gate->obs
PlaceObs(d, gateginfo, gate) ==
    LET o == [d EXCEPT !.x1 = @ - gateginfo.placedX, !.x2 = @ - gateginfo.placedX,
                       !.y1 = @ - gateginfo.placedY, !.y2 = @ - gateginfo.placedY]
        r == IF "R90" \in gate.orient
             THEN [o EXCEPT !.y1 = -o.x1 + gateginfo.width, !.x1 = o.y1,
                            !.y2 = -o.x2 + gateginfo.width, !.x2 = o.y2]
             ELSE o
        x == IF "MX" \in gate.orient
             THEN [r EXCEPT !.x1 = -r.x2 + gate.placedX + gateginfo.width,
                            !.x2 = -r.x1 + gate.placedX + gateginfo.width]
             ELSE [r EXCEPT !.x1 = @ + gate.placedX, !.x2 = @ + gate.placedX]
    IN  IF "MY" \in gate.orient
        THEN [x EXCEPT !.y1 = -x.y2 + gate.placedY + gateginfo.height,
                       !.y2 = -x.y1 + gate.placedY + gateginfo.height]
        ELSE [x EXCEPT !.y1 = @ + gate.placedY, !.y2 = @ + gate.placedY]

\* the copy loops: a rectangle on a layer at or above Num_layers is left out
PlaceCopy(d) == IF d.layer < Num_layers THEN <<d>> ELSE <<>>

\* macro rectangles with x1 < x2 and y1 < y2
MacroRects ==
    {d \in [x1 : 0..MaxCoord, y1 : 0..MaxCoord, x2 : 0..MaxCoord, y2 : 0..MaxCoord,
            layer : {0, Num_layers}] : d.x1 < d.x2 /\ d.y1 < d.y2}

InitPlace ==
    /\ IdleVia /\ IdlePoly /\ IdleRoute /\ IdleNets /\ IdleLayer /\ IdleHash /\ IdleDef /\ IdleMacro /\ IdleBounds
    /\ callIn \in [list : {"taps", "obs"},
                   drect : MacroRects,
                   gateginfo : [placedX : {0, 1}, placedY : {0}, width : {2, 3},
                                height : {2, 3}],
                   keyword : Orientations,
                   placedX : {0, 5}, placedY : {0, 7}]
    /\ callOut = NoTok

DefPlaceCall ==
    /\ callOut = NoTok
    /\ LET gate == [orient |-> DefReadLocation(callIn.keyword),
                    placedX |-> callIn.placedX, placedY |-> callIn.placedY]
           copy == PlaceCopy(callIn.drect)
       IN  callOut' =
             [gate |-> gate,
              rects |-> [i \in 1..Len(copy) |->
                           IF callIn.list = "taps"
                           THEN PlaceTap(copy[i], callIn.gateginfo, gate)
                           ELSE PlaceObs(copy[i], callIn.gateginfo, gate)]]
    /\ UNCHANGED <<callIn, notCall>>

NextPlace == DefPlaceCall

SpecPlace == InitPlace /\ [][NextPlace]_vars

\* ---- the placement transform as it is described
RectArea(d) == (d.x2 - d.x1) * (d.y2 - d.y1)

Placed == callOut # NoTok /\ Len(callOut.rects) = 1

SubOrigin(d, g) ==
    [d EXCEPT !.x1 = @ - g.placedX, !.x2 = @ - g.placedX,
              !.y1 = @ - g.placedY, !.y2 = @ - g.placedY]

\* the point (x, y) goes to (y, width - x)
Rotate(d, g) ==
    [d EXCEPT !.x1 = d.y1, !.y1 = g.width - d.x1, !.x2 = d.y2, !.y2 = g.width - d.x2]

MirrorX(d, g) == [d EXCEPT !.x1 = g.width - d.x2, !.x2 = g.width - d.x1]

MirrorY(d, g) == [d EXCEPT !.y1 = g.height - d.y2, !.y2 = g.height - d.y1]

Translate(d, px, py) ==
    [d EXCEPT !.x1 = @ + px, !.x2 = @ + px, !.y1 = @ + py, !.y2 = @ + py]

Described(d, g, gate) ==
    LET a == SubOrigin(d, g)
        b == IF "R90" \in gate.orient THEN Rotate(a, g) ELSE a
        c == IF "MX" \in gate.orient THEN MirrorX(b, g) ELSE b
        e == IF "MY" \in gate.orient THEN MirrorY(c, g) ELSE c
    IN  Translate(e, gate.placedX, gate.placedY)

\* C14: the transform of a pin tap and the transform of an obstruction are
\* one function of the rectangle, the macro and the placement: the macro
\* origin is subtracted, the rectangle is rotated, mirrored in X about the
\* macro width, mirrored in Y about the macro height and moved to the
\* placement position.
C14_TapAndObsAlike ==
    Placed =>
        /\ callOut.rects[1] = Described(callIn.drect, callIn.gateginfo, callOut.gate)
        /\ PlaceTap(callIn.drect, callIn.gateginfo, callOut.gate)
              = PlaceObs(callIn.drect, callIn.gateginfo, callOut.gate)

\* a tap of a macro with an origin and unequal sides, rotated and mirrored
\* both ways
C14_Witness ==
    /\ Placed
    /\ callIn.list = "taps"
    /\ callOut.gate.orient = {"R90", "MX", "MY"}
    /\ callIn.gateginfo.placedX = 1
    /\ callIn.gateginfo.width # callIn.gateginfo.height
    /\ callIn.placedX = 5


\* C30: for every orientation and every macro rectangle with x1 <= x2 and
\* y1 <= y2, each rectangle stored on the placed gate has x1 <= x2 and
\* y1 <= y2 and a layer below Num_layers.
C30_PlacedRectsWellFormed ==
    callOut # NoTok =>
        \A i \in 1 .. Len(callOut.rects) :
            /\ callOut.rects[i].x1 <= callOut.rects[i].x2
            /\ callOut.rects[i].y1 <= callOut.rects[i].y2
            /\ callOut.rects[i].layer < Num_layers


(***************************************************************************)
(* DefRead over a COMPONENTS section, statement by statement.              *)
(***************************************************************************)
MaxComps == 2

\* the macros read from the LEF file: one, with a tap below and a tap above
\* the layer limit and an obstruction
CompMacros ==
    <<[gatename |-> "INV", placedX |-> 0, placedY |-> 0, width |-> 2, height |-> 3,
       taps |-> <<[x1 |-> 0, y1 |-> 0, x2 |-> 1, y2 |-> 1, layer |-> 0],
                  [x1 |-> 1, y1 |-> 1, x2 |-> 2, y2 |-> 2, layer |-> Num_layers]>>,
       obs |-> <<[x1 |-> 0, y1 |-> 2, x2 |-> 2, y2 |-> 3, layer |-> 0]>>]>>

\* the mutant: every name finds the first macro
FindMacroAny(name) == IF GateInfo = <<>> THEN 0 ELSE 1

\* the loop over GateInfo: the index of the macro, 0 when none is found
FindMacro(name) ==
    LET S == {i \in 1..Len(GateInfo) : strcasecmp(GateInfo[i].gatename, name) = 0}
    IN  IF S = {} THEN 0 ELSE CHOOSE i \in S : \A j \in S : i <= j

\* the copy loops put each rectangle kept at the head of the new list
RECURSIVE CopyRects(_, _)
CopyRects(list, acc) ==
    IF list = <<>> THEN acc ELSE CopyRects(Tail(list), PlaceCopy(Head(list)) \o acc)

\* the statements of a section: the placement property is absent or PLACED
CompStatements ==
    [kind : {"-"}, usename : {"u1", "u2"}, macro : {"INV", "inv", "FOO"},
     placed : {"none", "N", "FE"}]

InitComp ==
    /\ IdleVia /\ IdlePoly /\ IdleRoute /\ IdleNets /\ IdleLayer /\ IdleCall /\ IdleHash
    /\ defPc = "DefRead"
    /\ dloc = [err_fatal |-> 0, sections |-> 0]
    /\ cloc = NoTok
    /\ GateInfo = CompMacros
    /\ IdleBounds

notDef == <<viaVars, polyVars, routeVars, netVars, layerVars, callVars, macroVars,
            boundVars>>

\* DefRead, case DEF_COMPONENTS: DefReadComponents begins
DefReadComponentsStart ==
    /\ defPc = "DefRead"
    /\ dloc.sections = 0
    /\ defPc' = "COMPONENTS"
    /\ dloc' = [dloc EXCEPT !.sections = @ + 1]
    /\ cloc' = [err_fatal |-> 0, processed |-> 0, stmts |-> <<>>]
    /\ UNCHANGED <<hashVars, notDef>>

\* case DEF_COMP_START.  Without a placement property gate->orient,
\* gate->placedX and gate->placedY keep what malloc delivered.
DefReadComponent ==
    /\ defPc = "COMPONENTS"
    /\ Len(cloc.stmts) < MaxComps
    /\ \E st \in CompStatements :
          LET OK == FindMacro(st.macro)
          IN  /\ cloc' = [cloc EXCEPT !.processed = @ + 1,
                                      !.err_fatal = IF OK = 0 THEN @ + 1 ELSE @,
                                      !.stmts = Append(@, st)]
              /\ IF OK = 0
                 THEN UNCHANGED hashVars
                 ELSE \E orient \in SUBSET {"MX", "MY", "R90"},
                         px \in {0, 5}, py \in {0, 7} :
                         /\ st.placed # "none" =>
                               /\ orient = DefReadLocation(st.placed)
                               /\ px = 5 /\ py = 7
                         /\ LET gateginfo == GateInfo[OK]
                                at == [orient |-> orient, placedX |-> px, placedY |-> py]
                                taps == CopyRects(gateginfo.taps, <<>>)
                                obs == CopyRects(gateginfo.obs, <<>>)
                                gate ==
                                  [gatename |-> st.usename,
                                   serial |-> Len(Nlgates) + 1,
                                   gatetype |-> gateginfo.gatename,
                                   orient |-> orient, placedX |-> px, placedY |-> py,
                                   width |-> gateginfo.width,
                                   height |-> gateginfo.height,
                                   taps |-> [i \in 1..Len(taps) |->
                                               PlaceTap(taps[i], gateginfo, at)],
                                   obs |-> [i \in 1..Len(obs) |->
                                               PlaceObs(obs[i], gateginfo, at)]]
                            IN  /\ Nlgates' = <<gate>> \o Nlgates
                                /\ InstanceTable' =
                                     HashSet(InstanceTable, gate.gatename, gate.serial)
                                /\ UNCHANGED NetTable
    /\ UNCHANGED <<defPc, dloc, notDef>>

\* case DEF_COMP_END with an END statement that does not parse: the error
\* is counted and the loop goes on
DefReadComponentsBadEnd ==
    /\ defPc = "COMPONENTS"
    /\ Len(cloc.stmts) < MaxComps
    /\ cloc' = [cloc EXCEPT !.err_fatal = @ + 1, !.stmts = Append(@, [kind |-> "END"])]
    /\ UNCHANGED <<defPc, dloc, hashVars, notDef>>

\* END COMPONENTS, or the end of the file: DefReadComponents returns its
\* count and DefRead adds it to its own
DefReadComponentsEnd ==
    /\ defPc = "COMPONENTS"
    /\ defPc' = "DefRead"
    /\ dloc' = [dloc EXCEPT !.err_fatal = @ + cloc.err_fatal]
    /\ UNCHANGED <<cloc, hashVars, notDef>>

\* END DESIGN, or the end of the file: DefRead returns err_fatal
DefReadReturn ==
    /\ defPc = "DefRead"
    /\ defPc' = "returned"
    /\ UNCHANGED <<dloc, cloc, hashVars, notDef>>

NextComp ==
    \/ DefReadComponentsStart
    \/ DefReadComponent
    \/ DefReadComponentsBadEnd
    \/ DefReadComponentsEnd
    \/ DefReadReturn

SpecComp == InitComp /\ [][NextComp]_vars

\* ---- the statements read, by what the reader is to make of them
UnknownMacro(st) == st.kind = "-" /\ \A i \in 1..Len(GateInfo) :
                                        strlower(GateInfo[i].gatename) # strlower(st.macro)

KnownMacro(st) == st.kind = "-" /\ ~UnknownMacro(st)

RECURSIVE UseNames(_)
UseNames(stmts) ==
    IF stmts = <<>> THEN <<>>
    ELSE (IF KnownMacro(Head(stmts)) THEN <<Head(stmts).usename>> ELSE <<>>)
            \o UseNames(Tail(stmts))

Statements == IF cloc = NoTok THEN <<>> ELSE cloc.stmts

\* C15: every component statement that names an unknown macro adds exactly
\* one to the count of fatal errors DefRead returns and creates no instance;
\* the instance list holds, latest first, exactly the instances of the
\* statements with a known macro, those after an unknown macro included.
C15_UnknownMacroCounted ==
    /\ defPc = "returned" =>
          dloc.err_fatal =
             Cardinality({i \in 1..Len(Statements) : UnknownMacro(Statements[i])})
             + Cardinality({i \in 1..Len(Statements) : Statements[i].kind = "END"})
    /\ LET names == UseNames(Statements)
       IN  /\ Len(Nlgates) = Len(names)
           /\ \A i \in 1..Len(names) :
                 Nlgates[Len(names) + 1 - i].gatename = names[i]

\* DefRead has returned after an unknown macro followed by a known one
C15_Witness ==
    /\ defPc = "returned"
    /\ Len(Statements) = 2
    /\ UnknownMacro(Statements[1])
    /\ KnownMacro(Statements[2])
    /\ dloc.err_fatal = 1
    /\ Len(Nlgates) = 1


(***************************************************************************)
(* The tokens of a ROUTED property: DefAddRoutes reading from a stream     *)
(* that may end anywhere.  LefNextToken returns NULL at the end of the     *)
(* stream.  Reading through a NULL token is undefined: the process stops   *)
(* there, or the read delivers some character.                             *)
(***************************************************************************)
MaxStream == 4

StreamTokens == {"NEW", "M1", "(", ")", "10", ";"}

Streams == UNION {[1..n -> StreamTokens] : n \in 0..MaxStream}

\* LefNextToken: the next token and the rest of the stream
LefNextToken(stream) ==
    IF stream = <<>>
    THEN [token |-> NULL, stream |-> <<>>]
    ELSE [token |-> Head(stream), stream |-> Tail(stream)]

\* the outcomes of a step that reads through the token: the branch taken
\* for each value of the test, or both and a stop when the token is NULL
Deref(c, test, yes, no) ==
    IF c.token = NULL
    THEN {[c EXCEPT !.at = "crashed"], yes, no}
    ELSE IF test THEN {yes} ELSE {no}

\* one pass through a part of DefAddRoutes that ends with a token read or
\* with the return; c holds the locals and the stream
DefAddRoutesPart(c) ==
    LET n == LefNextToken(c.stream)
        r == [c EXCEPT !.token = n.token, !.stream = n.stream, !.used = n.token]
    IN  CASE c.at = "top" ->
               IF c.initial
               THEN {[c EXCEPT !.initial = FALSE, !.valid = FALSE, !.at = "layer"]}
               ELSE IF n.token = NULL
                    THEN {[c EXCEPT !.token = NULL, !.stream = n.stream, !.at = "return"]}
               ELSE IF n.token = "NEW"
                    THEN {[r EXCEPT !.valid = FALSE, !.at = "layer"]}
               ELSE IF n.token = ";"
                    THEN {[r EXCEPT !.at = "return"]}
               ELSE IF n.token # "("
                    THEN {r}
               ELSE {[r EXCEPT !.at = "X"]}
          [] c.at = "layer" ->
               \* LefFindLayerNum takes a NULL token for an unknown layer
               IF n.token = "M1"
               THEN {[r EXCEPT !.at = IF c.special THEN "width" ELSE "top"]}
               ELSE {[r EXCEPT !.at = "top"]}
          [] c.at = "width" ->
               Deref(r, TRUE, [r EXCEPT !.at = "top"], [r EXCEPT !.at = "top"])
          [] c.at = "X" ->
               Deref(r, n.token = "10", [r EXCEPT !.at = "Y"], [r EXCEPT !.at = "endCoord"])
          [] c.at = "Y" ->
               Deref(r, n.token = "10", [r EXCEPT !.valid = TRUE, !.at = "endCoord"],
                     [r EXCEPT !.at = "endCoord"])
          [] c.at = "endCoord" ->
               IF c.token # NULL /\ c.token = ")"
               THEN {[c EXCEPT !.at = "top"]}
               ELSE Deref(r, n.token = ")", [r EXCEPT !.at = "top"], r)

InitStream ==
    /\ IdleVia /\ IdlePoly /\ IdleRoute /\ IdleNets /\ IdleLayer /\ IdleCall /\ IdleHash
    /\ IdleMacro /\ IdleBounds
    /\ defPc = "DefAddRoutes"
    /\ dloc = NoTok
    /\ cloc \in [stream : Streams, token : {"ROUTED"}, used : {"ROUTED"},
                 at : {"top"}, initial : {TRUE}, valid : {FALSE},
                 special : BOOLEAN]

DefAddRoutesStep ==
    /\ defPc = "DefAddRoutes"
    /\ cloc.at \notin {"return", "crashed"}
    /\ cloc' \in DefAddRoutesPart(cloc)
    /\ defPc' = IF cloc'.at = "crashed" THEN "crashed" ELSE defPc
    /\ UNCHANGED <<dloc, hashVars, notDef>>

\* DefReadNets, case DEF_NETPROP_ROUTED: DefAddRoutes is called again until
\* it returns NULL or ';'
RoutedLoop ==
    /\ defPc = "DefAddRoutes"
    /\ cloc.at = "return"
    /\ IF cloc.token # NULL /\ cloc.token # ";"
       THEN /\ cloc' = [cloc EXCEPT !.at = "top", !.initial = TRUE, !.valid = FALSE]
            /\ UNCHANGED defPc
       ELSE /\ defPc' = "DefRead"
            /\ UNCHANGED cloc
    /\ UNCHANGED <<dloc, hashVars, notDef>>

\* the loops of DefReadNets and DefRead read on while LefNextToken returns
\* a token
DefReadRest ==
    /\ defPc = "DefRead"
    /\ cloc # NoTok
    /\ LET n == LefNextToken(cloc.stream)
       IN  /\ cloc' = [cloc EXCEPT !.token = n.token, !.stream = n.stream,
                                   !.used = IF n.token = NULL THEN @ ELSE n.token]
           /\ defPc' = IF n.token = NULL THEN "returned" ELSE defPc
    /\ UNCHANGED <<dloc, hashVars, notDef>>

NextStream == DefAddRoutesStep \/ RoutedLoop \/ DefReadRest

SpecStream == InitStream /\ [][NextStream]_vars

\* C16: for every finite stream of tokens, one that ends in the middle of
\* a statement included, no step of the reader takes the NULL that the
\* tokenizer returns at the end of the stream for a token, and no read
\* stops the reader before DefRead returns.
C16_EndOfStreamChecked == cloc.used # NULL /\ defPc # "crashed"


(***************************************************************************)
(* LefReadMacro: the macro list under repeated MACRO sections.  A macro is *)
(* its name and the number of the section that defined it.                 *)
(***************************************************************************)
MacroNames == {"a", "A", "b"}

\* the first loop of LefReadMacro: the macro with exactly this name, 0 for
\* NULL
FindExact(info, name) ==
    LET S == {i \in 1..Len(info) : info[i].gatename = name}
    IN  IF S = {} THEN 0 ELSE CHOOSE i \in S : \A j \in S : i <= j

\* lefFindCell: the first macro whose name matches ignoring case, 0 for NULL
lefFindCell(info, name) ==
    LET S == {i \in 1..Len(info) : strcasecmp(info[i].gatename, name) = 0}
    IN  IF S = {} THEN 0 ELSE CHOOSE i \in S : \A j \in S : i <= j

\* the for loop over suffix: the first new name no macro has
RECURSIVE FreeName(_, _, _)
FreeName(info, mname, suffix) ==
    IF FindExact(info, NewName(mname, suffix)) = 0
    THEN NewName(mname, suffix)
    ELSE FreeName(info, mname, suffix + 1)

\* the while loop: the macro found is renamed and the name is looked up again
RECURSIVE RenameMacros(_, _, _)
RenameMacros(info, lefMacro, mname) ==
    IF lefMacro = 0
    THEN info
    ELSE LET renamed == [info EXCEPT ![lefMacro].gatename = FreeName(info, mname, 1)]
         IN  RenameMacros(renamed, lefFindCell(renamed, mname), mname)

InitMacro ==
    /\ IdleVia /\ IdlePoly /\ IdleRoute /\ IdleNets /\ IdleLayer /\ IdleCall
    /\ IdleHash /\ IdleDef /\ IdleMacro /\ IdleBounds

\* LefRead, MACRO mname: the new macro goes to the head of the list
LefReadMacro ==
    /\ Len(GateInfo) < MaxMacros
    /\ \E mname \in MacroNames :
          GateInfo' = <<[gatename |-> mname, serial |-> Len(GateInfo) + 1]>>
                         \o RenameMacros(GateInfo, FindExact(GateInfo, mname), mname)
    /\ UNCHANGED <<viaVars, polyVars, routeVars, netVars, layerVars, callVars,
                   hashVars, defVars, boundVars>>

NextMacro == LefReadMacro

SpecMacro == InitMacro /\ [][NextMacro]_vars

\* C17: after any sequence of MACRO sections, repeated names included, no
\* two macros of the list have one name as the lookup of the list compares
\* names, every macro defined so far is in the list with its definition,
\* and the lookup of the name defined last finds the last definition.
C17_MacroNamesUnique ==
    /\ \A i, j \in 1..Len(GateInfo) :
          i # j => strcasecmp(GateInfo[i].gatename, GateInfo[j].gatename) # 0
    /\ {GateInfo[i].serial : i \in 1..Len(GateInfo)} = 1..Len(GateInfo)
    /\ GateInfo # <<>> =>
          /\ GateInfo[1].serial = Len(GateInfo)
          /\ lefFindCell(GateInfo, GateInfo[1].gatename) = 1


(***************************************************************************)
(* DefRead over DIEAREA and TRACKS statements: the bounds of the routing   *)
(* area.  oscale is 1.                                                     *)
(***************************************************************************)
MaxDefStmts == 3

DieAreas ==
    {[kind |-> "DIEAREA", x1 |-> 0, y1 |-> 0, x2 |-> 10, y2 |-> 6],
     [kind |-> "DIEAREA", x1 |-> 2, y1 |-> 2, x2 |-> 6, y2 |-> 8]}

\* TRACKS corient start DO channels STEP step LAYER curlayer; the layer is
\* a routing layer, a layer at the layer limit or an unknown layer
TrackStatements ==
    [kind : {"TRACKS"}, corient : {"x", "y"}, start : {-2, 8}, channels : {1, 3},
     step : {2}, curlayer : {-1, 0, Num_layers}]

\* the mutant: the bounds are seeded with the lower edge of the die area
SeedLow(lo, hi) == lo

\* DIEAREA: the bounds are seeded with the midpoint of the die area
Seed(lo, hi) == (lo + hi) \div 2

InitTracks ==
    /\ IdleVia /\ IdlePoly /\ IdleRoute /\ IdleNets /\ IdleLayer /\ IdleCall
    /\ IdleHash /\ IdleMacro
    /\ defPc = "DefRead"
    /\ dloc = [diearea |-> NoTok, stmts |-> <<>>]
    /\ cloc = NoTok
    /\ Xlowerbound = 0 /\ Xupperbound = 0 /\ Ylowerbound = 0 /\ Yupperbound = 0
    /\ Tracks = <<>>
    /\ Pitch = [Vert |-> [l \in 0..(Num_layers - 1) |-> 0], PitchX |-> 0, PitchY |-> 0]

notBounds == <<viaVars, polyVars, routeVars, netVars, layerVars, callVars, hashVars,
               macroVars>>

\* case DEF_DIEAREA
DefReadDieArea ==
    /\ defPc = "DefRead"
    /\ Len(dloc.stmts) < MaxDefStmts
    /\ \E diearea \in DieAreas :
          /\ dloc' = [diearea |-> diearea, stmts |-> Append(dloc.stmts, diearea)]
          /\ Xlowerbound' = Seed(diearea.x1, diearea.x2)
          /\ Ylowerbound' = Seed(diearea.y1, diearea.y2)
          /\ Xupperbound' = Seed(diearea.x1, diearea.x2)
          /\ Yupperbound' = Seed(diearea.y1, diearea.y2)
    /\ UNCHANGED <<defPc, cloc, Tracks, Pitch, notBounds>>

\* case DEF_TRACKS
DefReadTracks ==
    /\ defPc = "DefRead"
    /\ Len(dloc.stmts) < MaxDefStmts
    /\ \E t \in TrackStatements :
          /\ dloc' = [dloc EXCEPT !.stmts = Append(@, t)]
          /\ IF t.curlayer < 0 \/ t.curlayer >= Num_layers
             THEN UNCHANGED boundVars
             ELSE LET table == IF Tracks = <<>>
                               THEN [l \in 0..(Num_layers - 1) |-> NoTok]
                               ELSE Tracks
                      ll == t.start
                      ur == t.start + t.step * t.channels
                  IN  /\ Tracks' = [table EXCEPT ![t.curlayer] =
                                      [start |-> t.start, ntracks |-> t.channels,
                                       pitch |-> t.step]]
                      /\ IF t.corient = "x"
                         THEN /\ Pitch' = [Pitch EXCEPT
                                   !.Vert[t.curlayer] = 1,
                                   !.PitchX = IF @ = 0 \/ t.step < @ THEN t.step ELSE @]
                              /\ Xlowerbound' = IF ll < Xlowerbound THEN ll ELSE Xlowerbound
                              /\ Xupperbound' = IF ur > Xupperbound THEN ur ELSE Xupperbound
                              /\ UNCHANGED <<Ylowerbound, Yupperbound>>
                         ELSE /\ Pitch' = [Pitch EXCEPT
                                   !.Vert[t.curlayer] = 0,
                                   !.PitchY = IF @ = 0 \/ t.step < @ THEN t.step ELSE @]
                              /\ Ylowerbound' = IF ll < Ylowerbound THEN ll ELSE Ylowerbound
                              /\ Yupperbound' = IF ur > Yupperbound THEN ur ELSE Yupperbound
                              /\ UNCHANGED <<Xlowerbound, Xupperbound>>
    /\ UNCHANGED <<defPc, cloc, notBounds>>

\* after the loop: without a widening the die area is used.  Without a
\* DIEAREA statement dXlowerbound ... dYupperbound were never set.
DefReadBounds ==
    /\ defPc = "DefRead"
    /\ defPc' = "returned"
    /\ \E d \in IF dloc.diearea = NoTok
                THEN [x1 : {-1, 0}, y1 : {-1, 0}, x2 : {0, 1}, y2 : {0, 1}]
                ELSE {dloc.diearea} :
          /\ IF Xlowerbound = Xupperbound
             THEN Xlowerbound' = d.x1 /\ Xupperbound' = d.x2
             ELSE UNCHANGED <<Xlowerbound, Xupperbound>>
          /\ IF Ylowerbound = Yupperbound
             THEN Ylowerbound' = d.y1 /\ Yupperbound' = d.y2
             ELSE UNCHANGED <<Ylowerbound, Yupperbound>>
    /\ UNCHANGED <<dloc, cloc, Tracks, Pitch, notBounds>>

NextTracks == DefReadDieArea \/ DefReadTracks \/ DefReadBounds

SpecTracks == InitTracks /\ [][NextTracks]_vars

\* ---- the bounds as they are described
SetMin(S) == CHOOSE v \in S : \A w \in S : v <= w

SetMax(S) == CHOOSE v \in S : \A w \in S : v >= w

\* the TRACKS statements on an allowed layer in one direction, from the
\* statement after the k-th on
TracksAfter(stmts, k, dirs) ==
    {i \in (k + 1)..Len(stmts) :
        /\ stmts[i].kind = "TRACKS"
        /\ stmts[i].corient \in dirs
        /\ stmts[i].curlayer >= 0 /\ stmts[i].curlayer < Num_layers}

TrackEnd(t) == t.start + t.step * t.channels

DieAreaRead == defPc = "returned" /\ dloc.diearea # NoTok

\* the point halfway between the two edges of the die area
Middle(lo, hi) == lo + (hi - lo) \div 2

\* C18 as stated: the die area widened by every TRACKS statement
C18_DieAreaWidened ==
    DieAreaRead =>
        LET st == dloc.stmts
            X == TracksAfter(st, 0, {"x"})
            Y == TracksAfter(st, 0, {"y"})
            d == dloc.diearea
        IN  /\ Xlowerbound = SetMin({d.x1} \cup {st[i].start : i \in X})
            /\ Xupperbound = SetMax({d.x2} \cup {TrackEnd(st[i]) : i \in X})
            /\ Ylowerbound = SetMin({d.y1} \cup {st[i].start : i \in Y})
            /\ Yupperbound = SetMax({d.y2} \cup {TrackEnd(st[i]) : i \in Y})

\* C18: in each direction the final bounds span the midpoint of the die
\* area of the last DIEAREA statement and the ranges [start, start + step *
\* count] of the TRACKS statements on an allowed layer that follow it; when
\* that leaves the two bounds equal, they are the range of the die area.
C18_MidpointWidened ==
    DieAreaRead =>
        LET st == dloc.stmts
            k == SetMax({i \in 1..Len(st) : st[i].kind = "DIEAREA"})
            X == TracksAfter(st, k, {"x"})
            Y == TracksAfter(st, k, {"y"})
            d == dloc.diearea
            xlo == SetMin({Middle(d.x1, d.x2)} \cup {st[i].start : i \in X})
            xhi == SetMax({Middle(d.x1, d.x2)} \cup {TrackEnd(st[i]) : i \in X})
            ylo == SetMin({Middle(d.y1, d.y2)} \cup {st[i].start : i \in Y})
            yhi == SetMax({Middle(d.y1, d.y2)} \cup {TrackEnd(st[i]) : i \in Y})
        IN  /\ Xlowerbound = IF xlo = xhi THEN d.x1 ELSE xlo
            /\ Xupperbound = IF xlo = xhi THEN d.x2 ELSE xhi
            /\ Ylowerbound = IF ylo = yhi THEN d.y1 ELSE ylo
            /\ Yupperbound = IF ylo = yhi THEN d.y2 ELSE yhi

\* TRACKS in X before and after the DIEAREA statement
C18_Witness ==
    /\ DieAreaRead
    /\ Len(dloc.stmts) = 3
    /\ dloc.stmts[1].kind = "TRACKS" /\ dloc.stmts[1].corient = "x"
    /\ dloc.stmts[1].curlayer = 0 /\ dloc.stmts[1].start = -2
    /\ dloc.stmts[2].kind = "DIEAREA"
    /\ dloc.stmts[3].kind = "TRACKS" /\ dloc.stmts[3].corient = "x"
    /\ dloc.stmts[3].curlayer = 0 /\ dloc.stmts[3].start = 8
    /\ Xlowerbound = Seed(dloc.diearea.x1, dloc.diearea.x2)


\* C19: every obstruction rectangle and every route segment DefAddRoutes
\* creates lies on a layer from 0 to Num_layers - 1; geometry on an unknown
\* layer, on a layer at or above the layer count or after a rejected NEW
\* record is dropped.
C19_GeometryOnRouteLayers ==
    /\ \A i \in 1..Len(UserObs) : UserObs[i].layer >= 0 /\ UserObs[i].layer < Num_layers
    /\ rnet.netname # "none" =>
          \A i \in 1..Len(rnet.routes) : \A j \in 1..Len(rnet.routes[i].segments) :
              /\ rnet.routes[i].segments[j].layer >= 0
              /\ rnet.routes[i].segments[j].layer < Num_layers

(***************************************************************************)
(* The end of LefRead: rotated versions of the VIARULE GENERATE vias       *)
(* (lef.c 3955-4130), then LefAssignLayerVias.                             *)
(***************************************************************************)
RuleNames == {"VA", "VB"}

\* names of VIA sections; some are names the synthesis forms
FixedViaNames == {"VA_1", "VA_3", "VC"}

NameStems == {"VA_", "VB_", "V"}

LastChars == {"0", "1", "2", "3", "C"}

\* the name with its last character replaced by c
SetLastChar(name, c) ==
    (CHOOSE s \in NameStems : \E d \in LastChars : name = s \o d) \o c

\* the minimum-width check of one rectangle
ClampRect(info, r) ==
    LET minwidth == LefGetRouteWidth(info, r.layer)
    IN  Rect(r.layer,
             IF r.w + EPS < 2 * minwidth THEN 2 * minwidth ELSE r.w,
             IF r.h + EPS < 2 * minwidth THEN 2 * minwidth ELSE r.h)

NonSquare(r) == ABSDIFF(r.w, r.h) > EPS

SwapXYNever(r, rotate) == r

\* a copy of the rectangle, X and Y swapped when rotate is set
SwapXY(r, rotate) == IF rotate THEN Rect(r.layer, r.h, r.w) ELSE r

\* a new generated via with the class and cut of lefl; the rectangles are
\* pushed on the front of lr, first then second
AltVia(lefl, vianame, first, second) ==
    [LefNewVia(vianame) EXCEPT !.generated = TRUE, !.lefClass = lefl.lefClass,
                               !.area = lefl.area, !.lr = <<second, first>>]

\* the vias one VIARULE via adds, in the order they are put at the head of
\* the list; it stops at the first name that is already defined
RotatedVias(info, lefl) ==
    LET viarect1 == lefl.lr[1]
        viarect2 == lefl.lr[2]
        nsq1 == NonSquare(viarect1)
        nsq2 == NonSquare(viarect2)
        name1 == SetLastChar(lefl.lefName, "1")
        name2 == SetLastChar(lefl.lefName, "2")
        name3 == SetLastChar(lefl.lefName, "3")
        alt1 == AltVia(lefl, name1, SwapXY(viarect1, nsq1), SwapXY(viarect2, nsq2))
        alt2 == AltVia(lefl, name2, SwapXY(viarect1, FALSE), SwapXY(viarect2, TRUE))
        alt3 == AltVia(lefl, name3, SwapXY(viarect1, TRUE), SwapXY(viarect2, FALSE))
    IN  IF ~(nsq1 \/ nsq2) THEN <<>>
        ELSE IF LefFindLayer(info, name1) # 0 THEN <<>>
        ELSE IF ~(nsq1 /\ nsq2) THEN <<alt1>>
        ELSE IF LefFindLayer(<<alt1>> \o info, name2) # 0 THEN <<alt1>>
        ELSE IF LefFindLayer(<<alt2, alt1>> \o info, name3) # 0 THEN <<alt2, alt1>>
        ELSE <<alt3, alt2, alt1>>

\* the loop over the list from its i-th record on; it crashes when a generated
\* via has one lr rectangle, whose missing successor is read
RECURSIVE LefRotateVias(_, _)
LefRotateVias(info, i) ==
    IF i > Len(info) THEN [crashed |-> FALSE, info |-> info]
    ELSE IF info[i].lefClass # CLASS_VIA \/ ~info[i].generated \/ info[i].lr = <<>>
         THEN LefRotateVias(info, i + 1)
    ELSE IF Len(info[i].lr) < 2 THEN [crashed |-> TRUE, info |-> info]
    ELSE LET lr == info[i].lr
             checked == [info EXCEPT ![i].lr =
                            <<ClampRect(info, lr[1]), ClampRect(info, lr[2])>>
                            \o SubSeq(lr, 3, Len(lr))]
             new == RotatedVias(checked, checked[i])
         IN  LefRotateVias(new \o checked, i + Len(new) + 1)

\* LefRead, VIARULE <name> GENERATE section: the via <name>_0 is always a new
\* record
LefReadGenerate ==
    \E name \in RuleNames, body \in RuleBodies :
        /\ lefPc # "crashed"
        /\ NumVias(LefInfo) < MaxVias
        /\ LefInfo' = <<LefReadViaSection(LefNewVia(name \o "_0"), body, "VIARULE", 1)>>
                      \o LefInfo
        /\ lefPc' = "read"
        /\ UNCHANGED <<AllowedVias, ViaXX, ViaXY, ViaYX, ViaYY, notVia>>

\* LefRead, VIA section with a name that is not in the registry
LefReadFixedVia ==
    \E name \in FixedViaNames, body \in ViaBodies :
        /\ lefPc # "crashed"
        /\ LefFindLayer(LefInfo, name) = 0
        /\ NumVias(LefInfo) < MaxVias
        /\ LefInfo' = <<LefReadViaSection(LefNewVia(name), body, "VIA", 1)>> \o LefInfo
        /\ lefPc' = "read"
        /\ UNCHANGED <<AllowedVias, ViaXX, ViaXY, ViaYX, ViaYY, notVia>>

\* LefRead after the END LIBRARY statement or the end of the file
LefReadFinish ==
    /\ lefPc = "read"
    /\ LET rotated == LefRotateVias(LefInfo, 1)
       IN  IF rotated.crashed
           THEN /\ lefPc' = "crashed"
                /\ UNCHANGED <<LefInfo, AllowedVias, ViaXX, ViaXY, ViaYX, ViaYY, notVia>>
           ELSE \E r \in {AssignLayerVias(rotated.info, AllowedVias,
                              [xx |-> ViaXX, xy |-> ViaXY, yx |-> ViaYX, yy |-> ViaYY], u) :
                              u \in UninitDiffs} :
                    /\ LefInfo' = r.info
                    /\ ViaXX' = r.tables.xx
                    /\ ViaXY' = r.tables.xy
                    /\ ViaYX' = r.tables.yx
                    /\ ViaYY' = r.tables.yy
                    /\ lefPc' = "assigned"
                    /\ UNCHANGED <<AllowedVias, notVia>>

NextRotate ==
    \/ LefReadGenerate
    \/ LefReadFixedVia
    \/ LefReadFinish

SpecRotate == InitVia /\ [][NextRotate]_vars

(***************************************************************************)
(* C20: the via records after the synthesis of rotated vias.               *)
(***************************************************************************)
\* a VIARULE via with two metal rectangles, as the synthesis meets it
RuleVia(l) == l.lefClass = CLASS_VIA /\ l.generated /\ Len(l.lr) = 2

\* its rectangles as the registry holds them after the minimum-width check
StoredRects(l) == <<ClampRect(LefInfo, l.lr[1]), ClampRect(LefInfo, l.lr[2])>>

Wider(r) == r.w - r.h > EPS \/ r.h - r.w > EPS

Turned(r, turn) == IF turn THEN [layer |-> r.layer, w |-> r.h, h |-> r.w] ELSE r

\* the orientation combinations of a via: a square rectangle is never turned
Combinations(l) ==
    {o \in BOOLEAN \X BOOLEAN :
        /\ o[1] => Wider(StoredRects(l)[1])
        /\ o[2] => Wider(StoredRects(l)[2])}

SequenceDigits == {"0", "1", "2", "3"}

\* a via record of the family of l that carries the combination o
HasOrientation(info, l, o) ==
    \E j \in 1 .. Len(info) :
        /\ info[j].lefClass = CLASS_VIA
        /\ info[j].lefName \in {SetLastChar(l.lefName, d) : d \in SequenceDigits}
        /\ Len(info[j].lr) = 2
        /\ {info[j].lr[1], info[j].lr[2]} =
               {Turned(StoredRects(l)[1], o[1]), Turned(StoredRects(l)[2], o[2])}

\* the names the synthesis gives the rotated versions of l
SynthesizedNames(l) ==
    IF Cardinality(Combinations(l)) = 4
    THEN {SetLastChar(l.lefName, d) : d \in {"1", "2", "3"}}
    ELSE IF Cardinality(Combinations(l)) = 2
         THEN {SetLastChar(l.lefName, "1")}
         ELSE {}

\* no record has one of those names, and no second record has the name of l
NamesFree(info, l) ==
    /\ \A n \in SynthesizedNames(l) : \A j \in 1 .. Len(info) : info[j].lefName # n
    /\ Cardinality({j \in 1 .. Len(info) : info[j].lefName = l.lefName}) = 1

SynthesisDone == lefPc = "read" /\ lefPc' = "assigned"

\* C20 as stated: whenever LefRead has synthesized the rotated vias, every
\* generate-rule via with two metal rectangles has a via record for each
\* orientation combination of its non-square rectangles (four when both are
\* non-square, two when one is).
C20_EveryOrientation ==
    [][SynthesisDone =>
          \A i \in 1 .. Len(LefInfo) :
              RuleVia(LefInfo[i]) =>
                  \A o \in Combinations(LefInfo[i]) :
                      HasOrientation(LefInfo', LefInfo[i], o)]_vars

\* C20 amended: the same for every generate-rule via whose synthesized names
\* are not yet defined and whose own name no other record has.
C20_EveryOrientationOfFreeNames ==
    [][SynthesisDone =>
          \A i \in 1 .. Len(LefInfo) :
              RuleVia(LefInfo[i]) /\ NamesFree(LefInfo, LefInfo[i]) =>
                  \A o \in Combinations(LefInfo[i]) :
                      HasOrientation(LefInfo', LefInfo[i], o)]_vars

\* LefRead has ended with a rule via of two non-square rectangles and the
\* three rotated versions _1, _2, _3 made from it
C20_Witness ==
    /\ lefPc = "assigned"
    /\ \E i \in 1 .. Len(LefInfo) :
          /\ LefInfo[i].lefName = "VA_0"
          /\ Len(LefInfo[i].lr) = 2
          /\ Wider(LefInfo[i].lr[1])
          /\ Wider(LefInfo[i].lr[2])
          /\ \A d \in {"1", "2", "3"} :
                \E j \in 1 .. Len(LefInfo) :
                    /\ LefInfo[j].lefName = SetLastChar("VA_0", d)
                    /\ LefInfo[j].generated
                    /\ {LefInfo[j].lr[k].layer : k \in 1 .. 2} =
                           {LefInfo[i].lr[k].layer : k \in 1 .. 2}
          /\ Cardinality({LefInfo[j].lr : j \in {j \in 1 .. Len(LefInfo) :
                             LefInfo[j].lefName \in
                                 {SetLastChar("VA_0", d) : d \in SequenceDigits}}}) = 4

(***************************************************************************)
(* SpecSnap: the points of a regular-net route on both sides of the lower  *)
(* bound of the grid (def.c 426-483).                                      *)
(***************************************************************************)
\* coordinates relative to the lower bound, in tenths of the pitch
SnapXTokens == {Num(-16), Num(-6), Num(-4), Num(4), Num(6), Num(13)}

SnapYTokens == {Num(-10), Num(-6), Num(0), Num(3)}

InitSnap ==
    /\ LefInfo = RouteTech
    /\ AllowedVias = <<>>
    /\ ViaXX = NullTable
    /\ ViaXY = NullTable
    /\ ViaYX = NullTable
    /\ ViaYY = NullTable
    /\ lefPc = "read"
    /\ IdlePoly
    /\ IdleNets
    /\ IdleLayer /\ IdleRest
    /\ rnet \in {n \in RoutedNets : n.flags = {}}
    /\ rspecial = FALSE
    /\ rloc = RouteLocals
    /\ UserObs = <<>>
    /\ rtok = NoTok
    /\ rcount = 0
    /\ routePc = "idle"

\* a point ( X Y ) with numbers on either side of the lower bound
SnapPointTok ==
    /\ routePc = "route"
    /\ rcount < MaxToks
    /\ \E xt \in SnapXTokens, yt \in SnapYTokens :
          /\ LET r == RoutePoint(LefInfo, RouteSt, rspecial, xt, yt, HeapKept)
             IN  rnet' = r.net /\ rloc' = r.loc /\ UserObs' = r.obs
          /\ rtok' = [kind |-> "point", x |-> xt, y |-> yt]
    /\ rcount' = rcount + 1
    /\ UNCHANGED <<routePc, rspecial, notRoute>>

NextSnap ==
    \/ RouteNewTok
    \/ SnapPointTok
    \/ RouteEndTok

SpecSnap == InitSnap /\ [][NextSnap]_vars

\* the track position of a grid index
TrackAt(g) == g * RoutePitch

\* the point read last and the route it belongs to
PointRead == routePc = "route" /\ rtok.kind = "point" /\ rnet.routes # <<>>

\* C21: after a point of a regular-net route is read, the grid index stored
\* for each coordinate is that of a track position at most half a pitch from
\* the coordinate, and a coordinate more than a third of the pitch off its
\* track position leaves the route flagged RT_CHECK.
C21_SnappedToNearestTrack ==
    PointRead =>
        /\ 2 * ABSDIFF(TrackAt(rloc.refx), rtok.x.v) <= RoutePitch
        /\ 2 * ABSDIFF(TrackAt(rloc.refy), rtok.y.v) <= RoutePitch
        /\ (3 * ABSDIFF(TrackAt(rloc.refx), rtok.x.v) > RoutePitch
            \/ 3 * ABSDIFF(TrackAt(rloc.refy), rtok.y.v) > RoutePitch)
               => RT_CHECK \in rnet.routes[1].flags

(***************************************************************************)
(* SpecIndex: LAYER sections and the LAYER statements of VIA sections in   *)
(* any order; the indices lefl->type they hand out (lef.c 2756-2807,       *)
(* 1295-1359, 3822-3842).                                                  *)
(***************************************************************************)
MAX_TYPES == 4

\* the layers of the technology with the class their TYPE statement names
IndexLayers == [M1 |-> CLASS_ROUTE, M2 |-> CLASS_ROUTE, M3 |-> CLASS_ROUTE,
                V1 |-> CLASS_CUT, V2 |-> CLASS_CUT]

\* case LEF_LAYER_TYPE on the record at index i
LefLayerType(info, i, typekey) ==
    IF info[i].lefClass # CLASS_IGNORE THEN info
    ELSE IF typekey = CLASS_ROUTE
         THEN [info EXCEPT ![i].lefClass = typekey, ![i].route = NoRoute,
                           ![i].type = LefGetMaxRouteLayer(info)]
         ELSE [info EXCEPT ![i].lefClass = typekey, ![i].area = NoRect, ![i].lr = <<>>]

\* case LEF_SECTION_LAYER with a section that holds the TYPE statement
LefLayerSection(info, name, typekey) ==
    IF LefFindLayer(info, name) = 0
    THEN LefLayerType(<<LefNewRoute(name)>> \o info, 1, typekey)
    ELSE IF info[LefFindLayer(info, name)].type < 0 THEN info
         ELSE LefLayerType(info, LefFindLayer(info, name), typekey)

\* LefReadLayers with obstruct = FALSE: the registry and the layer returned
LefReadLayers(info, name) ==
    LET i == LefFindLayer(info, name)
        curlayer == IF i # 0 /\ info[i].lefClass # CLASS_IGNORE THEN info[i].type ELSE -1
        cuttype == LefGetMaxLayer(info)
    IN  IF curlayer < 0 /\ i # 0 /\ info[i].lefClass = CLASS_CUT /\ cuttype < MAX_TYPES
        THEN [info |-> [info EXCEPT ![i].type = cuttype], curlayer |-> cuttype]
        ELSE [info |-> info, curlayer |-> curlayer]

InitIndex ==
    /\ LefInfo = <<>>
    /\ AllowedVias = <<>>
    /\ ViaXX = NullTable
    /\ ViaXY = NullTable
    /\ ViaYX = NullTable
    /\ ViaYY = NullTable
    /\ lefPc = "read"
    /\ IdlePoly /\ IdleRoute /\ IdleNets /\ IdleLayer /\ IdleRest

\* LefRead, a LAYER section
LefReadLayerDef ==
    \E name \in DOMAIN IndexLayers :
        /\ LefInfo' = LefLayerSection(LefInfo, name, IndexLayers[name])
        /\ UNCHANGED <<AllowedVias, ViaXX, ViaXY, ViaYX, ViaYY, lefPc, notVia>>

\* LefReadLayerSection of a VIA section, the statement LAYER <name> ;
LefReadViaLayer ==
    \E name \in DOMAIN IndexLayers :
        /\ LefInfo' = LefReadLayers(LefInfo, name).info
        /\ UNCHANGED <<AllowedVias, ViaXX, ViaXY, ViaYX, ViaYY, lefPc, notVia>>

NextIndex ==
    \/ LefReadLayerDef
    \/ LefReadViaLayer

SpecIndex == InitIndex /\ [][NextIndex]_vars

\* the routing layers of the registry, oldest first
RouteRecords ==
    LET S == {i \in 1 .. Len(LefInfo) : LefInfo[i].lefClass = CLASS_ROUTE}
    IN  [k \in 1 .. Cardinality(S) |->
            CHOOSE i \in S : Cardinality({j \in S : j > i}) = k - 1]

\* C22: the routing layers carry the indices 0 .. n-1 in the order of their
\* definition, no cut layer with an assigned index shares the index of a
\* routing layer, and LefFindLayerByNum of a routing layer's index is that
\* routing layer.
C22_RouteIndicesApart ==
    /\ \A k \in DOMAIN RouteRecords : LefInfo[RouteRecords[k]].type = k - 1
    /\ \A i, j \in 1 .. Len(LefInfo) :
          LefInfo[i].lefClass = CLASS_CUT /\ LefInfo[i].type >= 0
          /\ LefInfo[j].lefClass = CLASS_ROUTE => LefInfo[i].type # LefInfo[j].type
    /\ \A j \in 1 .. Len(LefInfo) :
          LefInfo[j].lefClass = CLASS_ROUTE =>
              LefFindLayerByNum(LefInfo, LefInfo[j].type) = j

(***************************************************************************)
(* SpecNetCount: DefReadNets with the declared number of nets, the block   *)
(* allocated for Nlnets and the counters processed and fixed (def.c        *)
(* 774-969).  cloc holds the locals of DefReadNets; cloc.alloc is the      *)
(* number of entries of the block Nlnets points to.                         *)
(***************************************************************************)
MaxDeclared == 2

NetProps == {"none", "ROUTED", "FIXED", "COVER"}

\* what one statement adds to fixed: the first of ROUTED, FIXED and COVER is
\* the only property the switch sees, the loop over DefAddRoutes reads the
\* rest of the statement
FixedAdded(is_new, special, netnum, prop) ==
    (IF prop \in {"FIXED", "COVER"} /\ is_new THEN 1 ELSE 0)
    + (IF prop \in {"ROUTED", "FIXED"} /\ special
          /\ (netnum = VDD_NET \/ netnum = GND_NET)
       THEN 1 ELSE 0)

InitNetCount ==
    /\ LefInfo = RouteTech
    /\ AllowedVias = <<>>
    /\ ViaXX = NullTable
    /\ ViaXY = NullTable
    /\ ViaYX = NullTable
    /\ ViaYY = NullTable
    /\ lefPc = "read"
    /\ IdlePoly /\ IdleRoute /\ IdleNets /\ IdleLayer
    /\ IdleCall /\ IdleHash /\ IdleMacro /\ IdleBounds
    /\ defPc = "DefRead"
    /\ dloc = NoTok
    /\ cloc = [total |-> 0, alloc |-> 0, base |-> 0, processed |-> 0, fixed |-> 0,
               returned |-> 0]

notNetCount == <<viaVars, polyVars, layerVars, callVars, hashVars, macroVars, boundVars,
                 defPc, dloc, rnet, rspecial, rloc, rtok, rcount, routePc>>

\* DefRead, case DEF_NETS or DEF_SPECIALNETS, and the entry of DefReadNets:
\* the block is allocated for the declared total
DefReadNetsDeclared ==
    /\ netsPc = "idle"
    /\ nsect < MaxSections
    /\ netsPc' \in {"NETS", "SPECIALNETS"}
    /\ \E total \in 0 .. MaxDeclared :
          cloc' = [total |-> total,
                   alloc |-> IF Len(Nlnets) = 0 THEN total ELSE Len(Nlnets) + total,
                   base |-> Len(Nlnets), processed |-> 0, fixed |-> 0,
                   returned |-> cloc.returned]
    /\ netidx' = IF Len(Nlnets) = 0 THEN MIN_NET_NUMBER ELSE Len(Nlnets)
    /\ nsect' = nsect + 1
    /\ UNCHANGED <<Nlnets, nstmts, UserObs, notNetCount>>

\* case DEF_NET_START.  Nlnets[Numnets++] = net is not checked against the
\* size of the block: a write behind its end may stop the program or go on.
DefReadCountedNet ==
    /\ netsPc \in {"NETS", "SPECIALNETS"}
    /\ nstmts < MaxNetStmts
    /\ \E name \in {"a", "b", vddnet}, prop \in NetProps :
          LET special == netsPc = "SPECIALNETS"
              is_new == DefFindNet(Nlnets, name) = 0
              r == NetStatement(LefInfo, Nlnets, netidx, UserObs, special, name, <<>>, prop)
              netnum == r.nets[IF is_new THEN Len(r.nets)
                               ELSE DefFindNet(Nlnets, name)].netnum
              done == /\ Nlnets' = r.nets /\ netidx' = r.netidx /\ UserObs' = r.obs
                      /\ cloc' = [cloc EXCEPT
                                    !.processed = @ + 1,
                                    !.fixed = @ + FixedAdded(is_new, special, netnum, prop)]
                      /\ UNCHANGED netsPc
              stopped == /\ netsPc' = "crashed"
                         /\ UNCHANGED <<Nlnets, netidx, UserObs, cloc>>
          IN  IF is_new /\ Len(Nlnets) >= cloc.alloc THEN done \/ stopped ELSE done
    /\ nstmts' = nstmts + 1
    /\ UNCHANGED <<nsect, notNetCount>>

\* case DEF_NET_END and the code after the loop; fixed is returned
DefReadNetsReturn ==
    /\ netsPc \in {"NETS", "SPECIALNETS"}
    /\ Nlnets' = IF netsPc = "NETS"
                 THEN [i \in 1..Len(Nlnets) |-> CountNodes(Nlnets[i])]
                 ELSE Nlnets
    /\ cloc' = [cloc EXCEPT !.returned = cloc.fixed]
    /\ netsPc' = "idle"
    /\ UNCHANGED <<netidx, nsect, nstmts, UserObs, notNetCount>>

NextNetCount ==
    \/ DefReadNetsDeclared
    \/ DefReadCountedNet
    \/ DefReadNetsReturn

SpecNetCount == InitNetCount /\ [][NextNetCount]_vars

\* C23: DefReadNets is never stopped by a section that holds more nets than
\* it declares, and the nets in the net table never outnumber the entries
\* of the block allocated for it.
C23_NetsFitAllocation ==
    /\ netsPc # "crashed"
    /\ Len(Nlnets) <= IF nsect = 0 THEN 0 ELSE cloc.alloc

\* the nets the section read last has marked NET_IGNORED, power and ground
\* left out
MarkedFixed ==
    {i \in (cloc.base + 1) .. Len(Nlnets) :
        /\ NET_IGNORED \in Nlnets[i].flags
        /\ Nlnets[i].netnum # VDD_NET
        /\ Nlnets[i].netnum # GND_NET}

\* C28: the value DefReadNets returns for a section is the number of nets
\* the section marked fixed or cover, the power and ground nets left out.
C28_ReturnsFixedCount ==
    (netsPc = "idle" /\ nsect > 0) => cloc.returned = Cardinality(MarkedFixed)


(***************************************************************************)
(* C24 - C26: the points of a route (SpecRoute).                           *)
(***************************************************************************)
\* a step of DefAddRoutes that reads a point ( X Y )
PointStep == rcount' = rcount + 1 /\ rtok'.kind = "point"

\* the segments of the routes of a net
SegmentsOf(net) == [i \in 1 .. Len(net.routes) |-> net.routes[i].segments]

FromReference == PointStep /\ rloc.valid

Skewed == rloc'.refx # rloc.refx /\ rloc'.refy # rloc.refy

\* the track index nearest to a coordinate at or above the lower bound
Nearest(g, tok, old) ==
    IF tok.star THEN g = old ELSE 2 * ABSDIFF(g * RoutePitch, tok.v) <= RoutePitch

MaxPathLen == 4

PathPoints == {<<x, y>> : x \in {0, 4, 10, 20}, y \in {0, 10}}

\* the paths in which every point shares a coordinate with the one before it
AlignedPaths ==
    {p \in UNION {[1 .. n -> PathPoints] : n \in 2 .. MaxPathLen} :
        \A k \in 1 .. (Len(p) - 1) : p[k][1] = p[k + 1][1] \/ p[k][2] = p[k + 1][2]}

\* the points path[k..] read one after the other
RECURSIVE RoutePath(_, _, _, _)
RoutePath(info, st, path, k) ==
    IF k > Len(path) THEN st
    ELSE RoutePath(info,
                   RoutePoint(info, st, FALSE, Num(path[k][1]), Num(path[k][2]), HeapKept),
                   path, k + 1)

\* DefAddRoutes for "M1 p0 p1 ... pn ;"
DefAddRoutes(info, net, path) ==
    RouteEnd(RoutePath(info,
                       RouteNew(info, [net |-> net, loc |-> RouteLocals, obs |-> <<>>],
                                FALSE, "M1", 0),
                       path, 1))

InitPath ==
    /\ LefInfo = RouteTech
    /\ AllowedVias = <<>>
    /\ ViaXX = NullTable
    /\ ViaXY = NullTable
    /\ ViaYX = NullTable
    /\ ViaYY = NullTable
    /\ lefPc = "read"
    /\ IdlePoly /\ IdleRoute /\ IdleNets /\ IdleLayer
    /\ IdleHash /\ IdleDef /\ IdleMacro /\ IdleBounds
    /\ callIn \in [net : {n \in RoutedNets : n.flags = {}}, path : AlignedPaths]
    /\ callOut = NoTok

DefAddRoutesCall ==
    /\ callOut = NoTok
    /\ callOut' = [net |-> DefAddRoutes(LefInfo, callIn.net, callIn.path).net]
    /\ UNCHANGED <<callIn, notCall>>

NextPath == DefAddRoutesCall

SpecPath == InitPath /\ [][NextPath]_vars

\* the track a coordinate at or above the lower bound lies nearest to; a
\* coordinate halfway between two tracks goes to the upper one
TrackOf(v) == (2 * v + RoutePitch) \div (2 * RoutePitch)

\* the wire from point p to point q
WireFrom(p, q) ==
    [segtype |-> ST_WIRE, layer |-> 0,
     x1 |-> TrackOf(p[1]), y1 |-> TrackOf(p[2]),
     x2 |-> TrackOf(q[1]), y2 |-> TrackOf(q[2])]

\* C26: the route DefAddRoutes leaves for the path p0 ... pn holds, from its
\* head, the wires (pn to pn-1), ..., (p1 to p0), and the second endpoint
\* of every segment is the first endpoint of the segment after it.
C26_SegmentsReversed ==
    (callOut # NoTok /\ callOut.net.routes # <<>>) =>
        LET segs == callOut.net.routes[1].segments
            path == callIn.path
            n == Len(path) - 1
        IN  /\ segs = [k \in 1 .. n |-> WireFrom(path[n + 2 - k], path[n + 1 - k])]
            /\ \A k \in 1 .. (n - 1) :
                  segs[k].x2 = segs[k + 1].x1 /\ segs[k].y2 = segs[k + 1].y1

\* the route of a path of four points, with its three wires
C26_Witness ==
    /\ callOut # NoTok
    /\ Len(callIn.path) = 4
    /\ callIn.path[1] # callIn.path[4]
    /\ callOut.net.routes # <<>>
    /\ Len(callOut.net.routes[1].segments) = 3

(***************************************************************************)
(* C27: the allow-list and the generate filter of LefAssignLayerVias, on   *)
(* SpecVia.  A slot that changes in a step was placed by that call.        *)
(***************************************************************************)
\* a via of the registry info that kept its generated flag and has base layer b
GeneratedOn(info, b) ==
    \E i \in 1 .. Len(info) : info[i].generated /\ ValidViaOn(info[i], b)

\* name is the name of a via of info with base layer b that kept its
\* generated flag
NamesGenerated(info, name, b) ==
    \E i \in 1 .. Len(info) :
        info[i].lefName = name /\ info[i].generated /\ ValidViaOn(info[i], b)

\* what the filter allows in a slot of base layer b
Lawful(info, name, b) ==
    IF AllowedVias # <<>> THEN InAllowed(AllowedVias, name)
    ELSE GeneratedOn(info, b) => NamesGenerated(info, name, b)

\* C27: a name that a call of LefAssignLayerVias places in a slot of a base
\* layer is named in the allow-list when the list is not empty, and otherwise
\* it is the name of a generated via of that base layer whenever a generated
\* via of that base layer exists.
C27_FilterObeyed ==
    [][ \A b \in Layers :
           /\ ViaXX'[b] # ViaXX[b] => Lawful(LefInfo', ViaXX'[b], b)
           /\ ViaXY'[b] # ViaXY[b] => Lawful(LefInfo', ViaXY'[b], b)
           /\ ViaYX'[b] # ViaYX[b] => Lawful(LefInfo', ViaYX'[b], b)
           /\ ViaYY'[b] # ViaYY[b] => Lawful(LefInfo', ViaYY'[b], b) ]_vars

\* a literal and a generated via of distinct names on one base layer, no
\* allow-list, and the slots of the layer all name the generated one
C27_Witness ==
    /\ lefPc = "assigned"
    /\ AllowedVias = <<>>
    /\ \E b \in Layers, i, j \in 1 .. Len(LefInfo) :
          /\ ValidViaOn(LefInfo[i], b) /\ ~LefInfo[i].generated /\ ClearShape(LefInfo[i])
          /\ ValidViaOn(LefInfo[j], b) /\ LefInfo[j].generated
          /\ LefInfo[i].lefName # LefInfo[j].lefName
          /\ ViaXX[b] = LefInfo[j].lefName /\ ViaXY[b] = LefInfo[j].lefName
          /\ ViaYX[b] = LefInfo[j].lefName /\ ViaYY[b] = LefInfo[j].lefName

(***************************************************************************)
(* C29: LefGetXYViaWidth on the tables LefAssignLayerVias leaves, on       *)
(* SpecVia.                                                                *)
(***************************************************************************)
\* the four tables, and the one of an orientation
ViaTables == [xx |-> ViaXX, xy |-> ViaXY, yx |-> ViaYX, yy |-> ViaYY]

ViaTable(orient) ==
    CASE orient = 0 -> ViaXX [] orient = 1 -> ViaXY [] orient = 2 -> ViaYX [] orient = 3 -> ViaYY

\* the rectangles of the via called name on a layer, in the order area, lr
RectsOn(name, layer) ==
    LET i == LefFindLayer(LefInfo, name)
    IN  IF i = 0 \/ LefInfo[i].lefClass # CLASS_VIA THEN <<>>
        ELSE SelectSeq(<<LefInfo[i].area>> \o LefInfo[i].lr, LAMBDA r : r.layer = layer)

HalfExtent(r, dir) == IF dir # 0 THEN r.h \div 2 ELSE r.w \div 2

HalfPitchGuess == Min2(PitchX, PitchY) \div 2

\* C29: for every base layer, queried layer, direction and orientation, when
\* the requested orientation's slot of that base layer names a defined via
\* with a rectangle on the queried layer, the width is half the extent of
\* the first such rectangle of that via, whatever the slots of the other base
\* layers hold.
C29_WidthFromRequestedSlot ==
    \A base \in Layers, layer \in Layers, dir \in 0 .. 1, orient \in 0 .. 3 :
        LET width == LefGetXYViaWidth(LefInfo, ViaTables, base, layer, dir, orient)
            own == RectsOn(ViaTable(orient)[base], layer)
        IN  own # <<>> => width = HalfExtent(own[1], dir)

=============================================================================
